---- MODULE Spec2Model ----
(***************************************************************************)
(* The tool handlers of the Aha! MCP server (src/src/handlers.ts) and the  *)
(* dispatch of tool calls to them (index.ts) as a state machine.  A        *)
(* handler is called with the arguments of the tool request, runs up to    *)
(* its first network await, is resumed by the reply of the backend, and    *)
(* ends in a returned result or a thrown error.  Spec runs one invocation  *)
(* at a time; InterleavedSpec runs two, switching between them at their    *)
(* await points.                                                           *)
(*                                                                         *)
(* JavaScript strings are sequences of tokens: a reference is a sequence   *)
(* of one-character tokens, a message is a sequence of literal pieces and  *)
(* interpolated values, and a template literal is the concatenation (\o)   *)
(* of its parts.  JavaScript objects are records; a key that is absent     *)
(* from an object is absent from the record's DOMAIN.                      *)
(***************************************************************************)
EXTENDS Integers, Sequences, FiniteSets, TLC

VARIABLES
    called,     \* request.params.name the server dispatched on ("none" when
                \* the handler was called directly, or when idle)
    pc,         \* position of the handler: "idle", an await point, or "done"
    tool,       \* name of the tool being served ("none" when idle)
    args,       \* request.params.arguments of the invocation
    locals,     \* local variables of the running handler
    inflight,   \* the backend request being awaited
    sent,       \* every backend request issued by the invocation, in order
    received,   \* every backend reply consumed by the invocation, in order
    outcome,    \* how the invocation ended: a returned result or a thrown error
    suspended   \* another invocation, waiting at an await point while this
                \* one runs (an idle one when there is none)

vars ==
    <<called, pc, tool, args, locals, inflight, sent, received, outcome,
      suspended>>

----------------------------------------------------------------------------
(* Bounds of the model *)

\* longest reference string given to get_record and get_page
MaxRefLen == 5

\* largest number of keys in the fields payload of update_feature
MaxFields == 2

\* largest total-page count a backend response declares
MaxTotalPages == 3

\* largest number of items in one page of a REST collection
MaxPageItems == 1

----------------------------------------------------------------------------
(* JavaScript values *)

Null == [type |-> "null"]
Undefined == [type |-> "undefined"]
None == [type |-> "none"]
EmptyObject == [k \in {} |-> Null]

\* obj[key] of JavaScript: undefined when the object has no such key
Get(obj, key) == IF key \in DOMAIN obj THEN obj[key] ELSE Undefined

\* an object-valued (or null / undefined) expression used as a condition
Truthy(v) == v # Null /\ v # Undefined

\* a destructured string argument used as a condition: `!reference` holds
\* when the argument is absent or is the empty string
FalsyArg(a, key) == key \notin DOMAIN a \/ a[key] = <<>>

\* JSON.stringify(value, null, 2): the text whose parse is `value`
JSONStringify(value) == [json |-> value]

\* a text built from a template literal
PlainText(s) == [plain |-> s]

\* the `content` array every handler returns: one text item
TextContent(text) == [type |-> "text", text |-> text]

----------------------------------------------------------------------------
(* Character classes and the reference regular expressions *)

UPPER == {"A", "B", "C", "D", "E", "F", "G", "H", "I", "J", "K", "L", "M",
          "N", "O", "P", "Q", "R", "S", "T", "U", "V", "W", "X", "Y", "Z"}
DIGIT == {"0", "1", "2", "3", "4", "5", "6", "7", "8", "9"}

\* A regular expression is a sequence of atoms, each a character set with a
\* quantifier: "1" (exactly one), "*" (zero or more), "+" (one or more).
\* All three expressions of the source are anchored with ^ and $.
Atom(set, q) == [set |-> set, q |-> q]

\* /^([A-Z][A-Z0-9]*)-(\d+)$/
FEATURE_REF_REGEX ==
    << Atom(UPPER, "1"), Atom(UPPER \cup DIGIT, "*"),
       Atom({"-"}, "1"), Atom(DIGIT, "+") >>

\* /^([A-Z][A-Z0-9]*)-(\d+)-(\d+)$/
\* variant: the middle segment taken as [A-Z0-9]+ instead of \d+
REQUIREMENT_REF_REGEX_LooseMiddle ==
    << Atom(UPPER, "1"), Atom(UPPER \cup DIGIT, "*"),
       Atom({"-"}, "1"), Atom(UPPER \cup DIGIT, "+"),
       Atom({"-"}, "1"), Atom(DIGIT, "+") >>
REQUIREMENT_REF_REGEX ==
    << Atom(UPPER, "1"), Atom(UPPER \cup DIGIT, "*"),
       Atom({"-"}, "1"), Atom(DIGIT, "+"),
       Atom({"-"}, "1"), Atom(DIGIT, "+") >>

\* /^([A-Z][A-Z0-9]*)-N-(\d+)$/
NOTE_REF_REGEX ==
    << Atom(UPPER, "1"), Atom(UPPER \cup DIGIT, "*"),
       Atom({"-"}, "1"), Atom({"N"}, "1"),
       Atom({"-"}, "1"), Atom(DIGIT, "+") >>

\* Backtracking match of atoms i.. of `re` against characters j.. of `s`,
\* up to the end of `s` (the $ anchor).
RECURSIVE MatchFrom(_, _, _, _)
MatchFrom(re, i, s, j) ==
    IF i > Len(re) THEN j > Len(s)
    ELSE LET a == re[i]
             here == j <= Len(s) /\ s[j] \in a.set
         IN CASE a.q = "1" -> here /\ MatchFrom(re, i + 1, s, j + 1)
              [] a.q = "*" -> \/ (here /\ MatchFrom(re, i, s, j + 1))
                              \/ MatchFrom(re, i + 1, s, j)
              [] a.q = "+" -> here /\ (\/ MatchFrom(re, i, s, j + 1)
                                       \/ MatchFrom(re, i + 1, s, j + 1))

\* RegExp.prototype.test on an anchored expression (the ^ anchor: from 1)
RegexTest(re, s) == MatchFrom(re, 1, s, 1)

----------------------------------------------------------------------------
(* Errors *)

\* new McpError(code, message)
McpError(code, message) == [type |-> "McpError", code |-> code, message |-> message]

\* new Error(message)
Error(message) == [type |-> "Error", message |-> message]

\* a thrown value that is not an Error object (a string)
ThrownString(s) == [type |-> "string", value |-> s]

\* error instanceof Error ? error.message : String(error)
ErrorMessage(error) ==
    IF error.type = "string" THEN error.value ELSE error.message

\* The catch block shared by every handler: an McpError is rethrown as it
\* is, anything else is wrapped into an InternalError with the prefix of
\* the operation.
\* variant: no instanceof McpError test
CatchBlock_AlwaysWrap(prefix, error) ==
    McpError("InternalError", prefix \o ErrorMessage(error))
\* variant: the prefix of the operation left out
CatchBlock_NoPrefix(prefix, error) ==
    IF error.type = "McpError" THEN error
    ELSE McpError("InternalError", ErrorMessage(error))
CatchBlock(prefix, error) ==
    IF error.type = "McpError" THEN error
    ELSE McpError("InternalError", prefix \o ErrorMessage(error))

\* reading a property of null or undefined
TypeErrorReading(key) ==
    [type |-> "TypeError",
     message |-> <<"Cannot read properties of null (reading '", key, "')">>]

\* response.json() on a body that is not JSON
JsonSyntaxError ==
    [type |-> "SyntaxError", message |-> <<"Unexpected token < in JSON">>]

----------------------------------------------------------------------------
(* The GraphQL queries (src/src/queries.ts): the operation, its root    *)
(* field, and the variables it declares.                                   *)

getFeatureQuery ==
    [operation |-> "GetFeature", root |-> "feature", variables |-> {"id"}]
getRequirementQuery ==
    [operation |-> "GetRequirement", root |-> "requirement", variables |-> {"id"}]
\* getPageQuery also carries the selection of `page`: the fields asked for
\* in every case, and `parent @include(if: $includeParent)`
getPageQuery ==
    [operation |-> "GetPage", root |-> "page",
     variables |-> {"id", "includeParent"},
     fields |-> {"id", "referenceNum", "name", "createdAt", "updatedAt",
                 "description", "children"},
     include |-> [parent |-> "includeParent"]]
searchDocumentsQuery ==
    [operation |-> "SearchDocuments", root |-> "searchDocuments",
     variables |-> {"query", "searchableType"}]
introspectFeatureFieldsQuery ==
    [operation |-> "IntrospectFeature", root |-> "__type", variables |-> {}]

\* this.client.request(query, variables)
GraphQLRequest(query, variables) ==
    [api |-> "graphql", query |-> query, variables |-> variables]

\* the fields of `page` a getPageQuery request asks the backend for: a field
\* under @include(if: $v) is asked for when the variable v is true
RequestedFields(req) ==
    req.query.fields
    \cup {f \in DOMAIN req.query.include :
             req.variables[req.query.include[f]] = TRUE}

----------------------------------------------------------------------------
(* Outcomes and handler steps *)

NoOutcome == [kind |-> "none"]
Returned(text) == [kind |-> "return", content |-> <<TextContent(text)>>]
Thrown(error) == [kind |-> "throw", error |-> error]

NoLocals == EmptyObject

\* everything an invocation holds: the request, the position of its
\* handler, the handler's local variables, its requests and replies
Invocation ==
    [called |-> called, pc |-> pc, tool |-> tool, args |-> args,
     locals |-> locals, inflight |-> inflight, sent |-> sent,
     received |-> received, outcome |-> outcome]

IdleInvocation ==
    [called |-> "none", pc |-> "idle", tool |-> "none", args |-> EmptyObject,
     locals |-> NoLocals, inflight |-> None, sent |-> <<>>,
     received |-> <<>>, outcome |-> NoOutcome]

\* the handler ends: it returns `out` or throws it
Finish(out) ==
    /\ pc' = "done"
    /\ outcome' = out
    /\ inflight' = None

\* the handler issues `req` and suspends at the await point `label`
Await(label, req) ==
    /\ pc' = label
    /\ inflight' = req
    /\ sent' = Append(sent, req)
    /\ outcome' = NoOutcome

\* The CallToolRequestSchema handler of the server: the if-chain over
\* request.params.name, in its order.  A handler is named by its tool.
RoutedTools ==
    << "get_record", "get_page", "search_documents", "introspect_feature",
       "get_record_rest", "list_features_in_release", "update_feature" >>

\* the handler a tool call carrying `name` is passed to, "none" when the
\* chain falls through to the throw
Dispatch(name) ==
    IF \E i \in 1..Len(RoutedTools) : RoutedTools[i] = name
    THEN name
    ELSE "none"

\* names a tool call can carry: those of the tool surface and another one
ToolNames ==
    { "get_record", "get_page", "search_documents", "introspect_feature",
      "get_record_rest", "update_feature", "list_features_in_release",
      "list_releases", "update_release", "delete_feature" }

\* a handler is entered with the arguments `a`: through the server when a
\* tool name is dispatched to it, by a direct call of the method otherwise
Enter(name, a) ==
    /\ pc = "idle"
    /\ called' = (IF \E n \in ToolNames : Dispatch(n) = name
                  THEN CHOOSE n \in ToolNames : Dispatch(n) = name
                  ELSE "none")
    /\ tool' = name
    /\ args' = a
    /\ received' = <<>>
    /\ UNCHANGED suspended

\* the awaited request is answered by `reply`
Resume(name, label, reply) ==
    /\ pc = label
    /\ tool = name
    /\ received' = Append(received, reply)
    /\ UNCHANGED <<called, tool, args, suspended>>

----------------------------------------------------------------------------
(* The backend: what a request can be answered with *)

\* values a transport call can reject with
TransportErrors ==
    { Error(<<"Network error">>),
      ThrownString(<<"String error">>),
      McpError("InvalidRequest", <<"Custom MCP error">>) }

Rejected(error) == [kind |-> "reject", error |-> error]
Resolved(value) == [kind |-> "resolve", value |-> value]

\* an object with the single key `key`
Single(key, value) == [k \in {key} |-> value]

\* the record the GraphQL backend holds under an id, shaped by the query
BackendRecord(req) ==
    LET base == [referenceNum |-> req.variables.id, name |-> <<"Test Record">>]
    IN IF req.query.root = "page" /\ "parent" \in RequestedFields(req)
       THEN [referenceNum |-> base.referenceNum, name |-> base.name,
             parent |-> [referenceNum |-> <<"parent">>, name |-> <<"Parent">>]]
       ELSE base

\* data a by-id query resolves with: the record, null, no root field, or
\* no data at all
RecordData(req) ==
    { Single(req.query.root, BackendRecord(req)),
      Single(req.query.root, Null),
      EmptyObject,
      Null }

SearchData ==
    { Single("searchDocuments",
             [nodes |-> <<>>, currentPage |-> 1, totalCount |-> 0,
              totalPages |-> 0, isLastPage |-> TRUE]),
      Single("searchDocuments",
             [nodes |-> <<[name |-> <<"Doc">>, searchableType |-> <<"Page">>]>>,
              currentPage |-> 1, totalCount |-> 1,
              totalPages |-> 1, isLastPage |-> TRUE]),
      Null }

IntrospectData ==
    { Single("__type", [name |-> <<"Feature">>, fields |-> <<>>]), Null }

GraphQLReplies(dataSet) ==
    {Rejected(e) : e \in TransportErrors} \cup {Resolved(d) : d \in dataSet}

----------------------------------------------------------------------------
(* Tool arguments the handlers are called with *)

\* characters of the references tried: an uppercase letter, the letter N,
\* a lowercase letter, a digit, the separator, and another character
Alphabet == {"A", "N", "n", "1", "-", "_"}

\* reference strings have up to MaxRefLen characters of Alphabet
ReferenceLengths == 0..MaxRefLen
ReferencesOfLength(n) == [1..n -> Alphabet]

\* sample references: empty, Feature-, Requirement- and Page-shaped, and
\* lowercase
ReferenceSamples ==
    { <<>>, <<"A", "-", "1">>, <<"A", "-", "1", "-", "1">>,
      <<"A", "-", "N", "-", "1">>, <<"n", "-", "1">> }

SearchArguments ==
    LET queries == {<<>>, <<"roadmap">>}
        types == {<<"Feature">>}
    IN {EmptyObject}
       \cup {[query |-> q] : q \in queries}
       \cup {[searchableType |-> t] : t \in types}
       \cup {[query |-> q, searchableType |-> t] : q \in queries, t \in types}

----------------------------------------------------------------------------
(* get_record *)

GetRecordPrefix == <<"Failed to fetch record: ">>

\* the request the reference selects, None when it matches neither pattern
\* variant: the two queries exchanged
GetRecordRequest_RequirementFirst(reference) ==
    IF RegexTest(FEATURE_REF_REGEX, reference)
    THEN GraphQLRequest(getRequirementQuery, [id |-> reference])
    ELSE IF RegexTest(REQUIREMENT_REF_REGEX, reference)
    THEN GraphQLRequest(getFeatureQuery, [id |-> reference])
    ELSE None
\* variant: no final else, an unrecognized reference taken as a feature
GetRecordRequest_DefaultsToFeature(reference) ==
    IF RegexTest(REQUIREMENT_REF_REGEX, reference)
    THEN GraphQLRequest(getRequirementQuery, [id |-> reference])
    ELSE GraphQLRequest(getFeatureQuery, [id |-> reference])
GetRecordRequest(reference) ==
    IF RegexTest(FEATURE_REF_REGEX, reference)
    THEN GraphQLRequest(getFeatureQuery, [id |-> reference])
    ELSE IF RegexTest(REQUIREMENT_REF_REGEX, reference)
    THEN GraphQLRequest(getRequirementQuery, [id |-> reference])
    ELSE None

\* the field of the response the branch reads: data.feature or
\* data.requirement
GetRecordResultKey(reference) ==
    IF RegexTest(FEATURE_REF_REGEX, reference) THEN "feature" ELSE "requirement"

\* the handler after `await this.client.request(...)`
\* variant: a missing record thrown as an error
GetRecordContinue_NotFoundThrows(reference, reply) ==
    IF reply.kind = "reject"
    THEN Thrown(CatchBlock(GetRecordPrefix, reply.error))
    ELSE IF reply.value = Null \/ ~Truthy(Get(reply.value, GetRecordResultKey(reference)))
    THEN Thrown(McpError("InvalidParams",
                <<"No record found for reference ">> \o reference))
    ELSE Returned(JSONStringify(Get(reply.value, GetRecordResultKey(reference))))
GetRecordContinue(reference, reply) ==
    IF reply.kind = "reject"
    THEN Thrown(CatchBlock(GetRecordPrefix, reply.error))
    ELSE IF reply.value = Null
    THEN Thrown(CatchBlock(GetRecordPrefix,
                           TypeErrorReading(GetRecordResultKey(reference))))
    ELSE LET result == Get(reply.value, GetRecordResultKey(reference))
         IN IF ~Truthy(result)
            THEN Returned(PlainText(<<"No record found for reference ">>
                                    \o reference))
            ELSE Returned(JSONStringify(result))

\* the handler called with the arguments `a`, up to its first await
GetRecord(a) ==
    /\ Enter("get_record", a)
    /\ locals' = NoLocals
    /\ IF FalsyArg(a, "reference")
       THEN /\ Finish(Thrown(McpError("InvalidParams",
                                      <<"Reference number is required">>)))
            /\ UNCHANGED sent
       ELSE IF GetRecordRequest(a.reference) = None
       THEN /\ Finish(Thrown(CatchBlock(GetRecordPrefix,
                McpError("InvalidParams",
                  <<"Invalid reference number format. Expected DEVELOP-123 or ADT-123-1">>))))
            /\ UNCHANGED sent
       ELSE Await("await_record", GetRecordRequest(a.reference))

\* get_record is called without a reference or with any reference string
HandleGetRecord ==
    /\ pc = "idle"
    /\ \/ GetRecord(EmptyObject)
       \/ \E n \in ReferenceLengths : \E r \in ReferencesOfLength(n) :
             GetRecord([reference |-> r])

GetRecordReplied ==
    /\ pc = "await_record"
    /\ \E reply \in GraphQLReplies(RecordData(inflight)) :
        /\ Resume("get_record", "await_record", reply)
        /\ Finish(GetRecordContinue(args.reference, reply))
        /\ UNCHANGED <<sent, locals>>

----------------------------------------------------------------------------
(* get_page *)

GetPagePrefix == <<"Failed to fetch page: ">>

\* const { reference, includeParent = false } = request.params.arguments
\* variant: includeParent = true
IncludeParentOf_DefaultsToTrue(a) ==
    IF "includeParent" \in DOMAIN a THEN a.includeParent ELSE TRUE
IncludeParentOf(a) ==
    IF "includeParent" \in DOMAIN a THEN a.includeParent ELSE FALSE

GetPageRequest(a) ==
    GraphQLRequest(getPageQuery,
                   [id |-> a.reference, includeParent |-> IncludeParentOf(a)])

\* the format guard of get_page: !NOTE_REF_REGEX.test(reference)
GetPageRejects(reference) == ~RegexTest(NOTE_REF_REGEX, reference)

GetPageContinue(reference, reply) ==
    IF reply.kind = "reject"
    THEN Thrown(CatchBlock(GetPagePrefix, reply.error))
    ELSE IF reply.value = Null
    THEN Thrown(CatchBlock(GetPagePrefix, TypeErrorReading("page")))
    ELSE IF ~Truthy(Get(reply.value, "page"))
    THEN Returned(PlainText(<<"No page found for reference ">> \o reference))
    ELSE Returned(JSONStringify(Get(reply.value, "page")))

\* the handler called with the arguments `a`, up to its first await
GetPage(a) ==
    /\ Enter("get_page", a)
    /\ locals' = NoLocals
    /\ IF FalsyArg(a, "reference")
       THEN /\ Finish(Thrown(McpError("InvalidParams",
                                      <<"Reference number is required">>)))
            /\ UNCHANGED sent
       ELSE IF GetPageRejects(a.reference)
       THEN /\ Finish(Thrown(McpError("InvalidParams",
                  <<"Invalid reference number format. Expected ABC-N-213">>)))
            /\ UNCHANGED sent
       ELSE Await("await_page", GetPageRequest(a))

\* get_page is called without a reference, with any reference string, or
\* with a sample reference and includeParent
HandleGetPage ==
    /\ pc = "idle"
    /\ \/ \E a \in {EmptyObject, [includeParent |-> TRUE]} : GetPage(a)
       \/ \E n \in ReferenceLengths : \E r \in ReferencesOfLength(n) :
             GetPage([reference |-> r])
       \/ \E r \in ReferenceSamples, b \in BOOLEAN :
             GetPage([reference |-> r, includeParent |-> b])

GetPageReplied ==
    /\ pc = "await_page"
    /\ \E reply \in GraphQLReplies(RecordData(inflight)) :
        /\ Resume("get_page", "await_page", reply)
        /\ Finish(GetPageContinue(args.reference, reply))
        /\ UNCHANGED <<sent, locals>>

----------------------------------------------------------------------------
(* search_documents *)

SearchPrefix == <<"Failed to search documents: ">>

\* const { query, searchableType = "Page" } = request.params.arguments
SearchableTypeOf(a) ==
    IF "searchableType" \in DOMAIN a THEN a.searchableType ELSE <<"Page">>

SearchRequest(a) ==
    GraphQLRequest(searchDocumentsQuery,
                   [query |-> a.query, searchableType |-> <<SearchableTypeOf(a)>>])

SearchContinue(reply) ==
    IF reply.kind = "reject"
    THEN Thrown(CatchBlock(SearchPrefix, reply.error))
    ELSE IF reply.value = Null
    THEN Thrown(CatchBlock(SearchPrefix, TypeErrorReading("searchDocuments")))
    ELSE Returned(JSONStringify(Get(reply.value, "searchDocuments")))

HandleSearchDocuments ==
    /\ pc = "idle"
    /\ \E a \in SearchArguments :
        /\ Enter("search_documents", a)
        /\ locals' = NoLocals
        /\ IF FalsyArg(a, "query")
           THEN /\ Finish(Thrown(McpError("InvalidParams",
                                          <<"Search query is required">>)))
                /\ UNCHANGED sent
           ELSE Await("await_search", SearchRequest(a))

SearchDocumentsReplied ==
    /\ pc = "await_search"
    /\ \E reply \in GraphQLReplies(SearchData) :
        /\ Resume("search_documents", "await_search", reply)
        /\ Finish(SearchContinue(reply))
        /\ UNCHANGED <<sent, locals>>

----------------------------------------------------------------------------
(* introspect_feature *)

IntrospectPrefix == <<"Failed to introspect: ">>

IntrospectContinue(reply) ==
    IF reply.kind = "reject"
    THEN Thrown(CatchBlock(IntrospectPrefix, reply.error))
    ELSE Returned(JSONStringify(reply.value))

HandleIntrospectFeature ==
    /\ Enter("introspect_feature", EmptyObject)
    /\ locals' = NoLocals
    /\ Await("await_introspect",
             GraphQLRequest(introspectFeatureFieldsQuery, EmptyObject))

IntrospectFeatureReplied ==
    /\ pc = "await_introspect"
    /\ \E reply \in GraphQLReplies(IntrospectData) :
        /\ Resume("introspect_feature", "await_introspect", reply)
        /\ Finish(IntrospectContinue(reply))
        /\ UNCHANGED <<sent, locals>>

----------------------------------------------------------------------------
(* The REST backend *)

\* `https://${AHA_DOMAIN}.aha.io/api/v1/${path}`
ApiUrl(path) ==
    [path |-> <<"https://", "AHA_DOMAIN", ".aha.io/api/v1/">> \o path]

\* `https://${AHA_DOMAIN}.aha.io/api/v1/${path}?page=${page}&per_page=${perPage}`
PagedApiUrl(path, page, perPage) ==
    [path |-> <<"https://", "AHA_DOMAIN", ".aha.io/api/v1/">> \o path,
     page |-> page, per_page |-> perPage]

\* fetch(url, {headers}) and fetch(url, {method: 'PUT', headers, body})
RestGet(url) == [api |-> "rest", method |-> "GET", url |-> url]
RestPut(url, body) ==
    [api |-> "rest", method |-> "PUT", url |-> url, body |-> body]

\* status lines of the responses that are not ok
FailureStatuses ==
    { [status |-> "404", statusText |-> "Not Found"],
      [status |-> "500", statusText |-> "Internal Server Error"] }

\* a response that is not ok; its body is text that would also parse as a
\* JSON object without items or pagination
NotOkResponse(st) ==
    [ok |-> FALSE, status |-> st.status, statusText |-> st.statusText,
     text |-> <<"Invalid field value">>,
     body |-> [error |-> <<"Invalid field value">>]]
OkResponse(body) ==
    [ok |-> TRUE, status |-> "200", statusText |-> "OK", body |-> body]
\* an ok response whose body is not JSON: response.json() rejects
OkNotJson ==
    [ok |-> TRUE, status |-> "200", statusText |-> "OK"]

RestReplies(bodies) ==
    {Rejected(e) : e \in TransportErrors}
    \cup {Resolved(NotOkResponse(st)) : st \in FailureStatuses}
    \cup {Resolved(OkNotJson)}
    \cup {Resolved(OkResponse(b)) : b \in bodies}

\* `REST API error: ${response.status} ${response.statusText}`
RestApiError(response) ==
    Error(<<"REST API error: ", response.status, " ", response.statusText>>)

\* What a reply makes the awaited fetch and the following response.json()
\* throw inside the try block; None when the body was parsed.
\* variant: no `if (!response.ok) throw`, the body parsed whatever the status
FetchFailure_IgnoresStatus(reply) ==
    IF reply.kind = "reject" THEN reply.error
    ELSE IF "body" \notin DOMAIN reply.value THEN JsonSyntaxError
    ELSE None
FetchFailure(reply) ==
    IF reply.kind = "reject" THEN reply.error
    ELSE IF ~reply.value.ok THEN RestApiError(reply.value)
    ELSE IF "body" \notin DOMAIN reply.value THEN JsonSyntaxError
    ELSE None

----------------------------------------------------------------------------
(* get_record_rest *)

GetRecordRestPrefix == <<"Failed to fetch record via REST: ">>

RestRecordArguments ==
    {EmptyObject} \cup {[reference |-> r] : r \in ReferenceSamples}

RestFeatureBodies(req) ==
    { [feature |-> [reference_num |-> <<"A-1">>, name |-> <<"Test Feature">>]] }

GetRecordRestContinue(reply) ==
    IF FetchFailure(reply) # None
    THEN Thrown(CatchBlock(GetRecordRestPrefix, FetchFailure(reply)))
    ELSE Returned(JSONStringify(reply.value.body))

HandleGetRecordRest ==
    /\ pc = "idle"
    /\ \E a \in RestRecordArguments :
        /\ Enter("get_record_rest", a)
        /\ locals' = NoLocals
        /\ IF FalsyArg(a, "reference")
           THEN /\ Finish(Thrown(McpError("InvalidParams",
                                          <<"Reference number is required">>)))
                /\ UNCHANGED sent
           ELSE Await("await_rest_record",
                      RestGet(ApiUrl(<<"features/">> \o a.reference)))

GetRecordRestReplied ==
    /\ pc = "await_rest_record"
    /\ \E reply \in RestReplies(RestFeatureBodies(inflight)) :
        /\ Resume("get_record_rest", "await_rest_record", reply)
        /\ Finish(GetRecordRestContinue(reply))
        /\ UNCHANGED <<sent, locals>>

----------------------------------------------------------------------------
(* update_feature *)

UpdateFeaturePrefix == <<"Failed to update feature: ">>

\* Known standard fields from Aha! API documentation
standardFieldNames ==
    << "name", "workflow_kind", "workflow_status", "release", "description",
       "created_by", "assigned_to_user", "tags",
       "initial_estimate_text", "detailed_estimate_text", "remaining_estimate_text",
       "initial_estimate", "detailed_estimate", "remaining_estimate",
       "start_date", "due_date", "release_phase", "initiative", "epic",
       "progress_source", "progress", "team", "team_workflow_status",
       "iteration", "program_increment" >>

\* standardFieldNames.includes(key)
\* variant: the last name of the list not looked at
IsStandardField_MissesLast(key) ==
    \E i \in 1..(Len(standardFieldNames) - 1) : standardFieldNames[i] = key
IsStandardField(key) ==
    \E i \in 1..Len(standardFieldNames) : standardFieldNames[i] = key

\* keys and values of the payloads tried: two standard keys (the first and
\* the last of the list) and two keys that are not standard
PayloadKeys == {"name", "program_increment", "go_live_date", "custom_fields"}
PayloadValues == {[value |-> "2025-04-01"], [value |-> "Done"]}

\* A fields object is the sequence of its entries in insertion order, the
\* order Object.entries walks them in; its keys are distinct.
FieldObjects ==
    { f \in UNION {[1..n -> [key : PayloadKeys, value : PayloadValues]] :
                      n \in 0..MaxFields} :
        \A i, j \in DOMAIN f : i # j => f[i].key # f[j].key }

UpdateFeatureArguments ==
    LET refs == {<<>>, <<"A", "-", "1">>}
    IN {EmptyObject}
       \cup {[reference |-> r] : r \in refs}
       \cup {[fields |-> f] : f \in {<<>>, <<[key |-> "name", value |-> [value |-> "Done"]]>>}}
       \cup {[reference |-> r, fields |-> f] : r \in refs, f \in FieldObjects}

\* obj[key] = value
Assign(obj, key, value) ==
    [k \in DOMAIN obj \cup {key} |-> IF k = key THEN value ELSE obj[k]]

\* for (const [key, value] of Object.entries(fields)) { ... }, from entry i
RECURSIVE PartitionLoop(_, _, _)
PartitionLoop(entries, i, acc) ==
    IF i > Len(entries) THEN acc
    ELSE LET key == entries[i].key
             value == entries[i].value
         IN IF IsStandardField(key)
            THEN PartitionLoop(entries, i + 1,
                   [standardFields |-> Assign(acc.standardFields, key, value),
                    customFields |-> acc.customFields])
            ELSE PartitionLoop(entries, i + 1,
                   [standardFields |-> acc.standardFields,
                    customFields |-> Assign(acc.customFields, key, value)])

\* const customFields = {}; const standardFields = {}; and the loop
PartitionFields(fields) ==
    PartitionLoop(fields, 1,
                  [standardFields |-> EmptyObject, customFields |-> EmptyObject])

\* payload = { feature: { ...standardFields } }, with custom_fields added
\* when customFields has keys
\* variant: custom_fields set without the length test
BuildPayload_AlwaysCustom(parts) ==
    [feature |-> Assign(parts.standardFields, "custom_fields", parts.customFields)]
BuildPayload(parts) ==
    IF Cardinality(DOMAIN parts.customFields) > 0
    THEN [feature |-> Assign(parts.standardFields, "custom_fields",
                             parts.customFields)]
    ELSE [feature |-> parts.standardFields]

\* `REST API error: ${status} ${statusText} - ${errorBody}`
RestApiErrorWithBody(response) ==
    Error(<<"REST API error: ", response.status, " ", response.statusText,
            " - ">> \o response.text)

UpdateFeatureContinue(reply) ==
    IF reply.kind = "resolve" /\ ~reply.value.ok
    THEN Thrown(CatchBlock(UpdateFeaturePrefix, RestApiErrorWithBody(reply.value)))
    ELSE IF FetchFailure(reply) # None
    THEN Thrown(CatchBlock(UpdateFeaturePrefix, FetchFailure(reply)))
    ELSE Returned(JSONStringify(reply.value.body))

\* !fields || Object.keys(fields).length === 0
\* variant: the zero-keys test left out
FieldsMissing_AllowsEmpty(a) == "fields" \notin DOMAIN a
FieldsMissing(a) == "fields" \notin DOMAIN a \/ Len(a.fields) = 0

HandleUpdateFeature ==
    /\ pc = "idle"
    /\ \E a \in UpdateFeatureArguments :
        /\ Enter("update_feature", a)
        /\ IF FalsyArg(a, "reference")
           THEN /\ Finish(Thrown(McpError("InvalidParams",
                                          <<"Reference number is required">>)))
                /\ locals' = NoLocals
                /\ UNCHANGED sent
           ELSE IF FieldsMissing(a)
           THEN /\ Finish(Thrown(McpError("InvalidParams",
                      <<"Fields object is required with at least one field to update">>)))
                /\ locals' = NoLocals
                /\ UNCHANGED sent
           ELSE LET parts == PartitionFields(a.fields)
                    payload == BuildPayload(parts)
                IN /\ locals' = [standardFields |-> parts.standardFields,
                                 customFields |-> parts.customFields,
                                 payload |-> payload]
                   /\ Await("await_update",
                            RestPut(ApiUrl(<<"features/">> \o a.reference),
                                    JSONStringify(payload)))

UpdateFeatureReplied ==
    /\ pc = "await_update"
    /\ \E reply \in RestReplies(RestFeatureBodies(inflight)) :
        /\ Resume("update_feature", "await_update", reply)
        /\ Finish(UpdateFeatureContinue(reply))
        /\ UNCHANGED <<sent, locals>>

----------------------------------------------------------------------------
(* update_release.  Handlers.handleUpdateRelease is not part of            *)
(* src/src/handlers.ts; the operation is modelled from its row in the      *)
(* operations table of the specification, the common shape of an           *)
(* operation, and the jest cases that call it.                             *)

UpdateReleasePrefix == <<"Failed to update release: ">>

\* fields objects tried: none, one entry, and two date entries
ReleaseFieldObjects ==
    { <<>>,
      <<[key |-> "name", value |-> [value |-> "Done"]]>>,
      <<[key |-> "start_date", value |-> [value |-> "2025-04-01"]],
        [key |-> "release_date", value |-> [value |-> "2025-04-01"]]>> }

UpdateReleaseArguments ==
    LET refs == {<<>>, <<"A", "-", "R", "-", "1">>}
    IN {EmptyObject}
       \cup {[reference |-> r] : r \in refs}
       \cup {[fields |-> f] : f \in ReleaseFieldObjects}
       \cup {[reference |-> r, fields |-> f] : r \in refs, f \in ReleaseFieldObjects}

\* the body of the PUT request: { release: fields }
\* variant: the key of update_feature
ReleasePayload_UnderFeature(fields) == [feature |-> fields]
ReleasePayload(fields) == [release |-> fields]

RestReleaseBodies ==
    { [release |-> [reference_num |-> <<"A-R-1">>, name |-> <<"Q1 2024">>]] }

\* { message: 'Release updated successfully', release: data.release }
UpdateReleaseContinue(reply) ==
    IF FetchFailure(reply) # None
    THEN Thrown(CatchBlock(UpdateReleasePrefix, FetchFailure(reply)))
    ELSE Returned(JSONStringify(
             IF "release" \in DOMAIN reply.value.body
             THEN [message |-> <<"Release updated successfully">>,
                   release |-> reply.value.body.release]
             ELSE [message |-> <<"Release updated successfully">>]))

\* the messages of the two argument checks; which check comes first is not
\* stated, so a call that fails both ends in either message
UpdateReleaseRejections(a) ==
    (IF FalsyArg(a, "reference")
     THEN {<<"Release reference number is required">>} ELSE {})
    \cup (IF FieldsMissing(a) THEN {<<"Fields object is required">>} ELSE {})

HandleUpdateRelease ==
    /\ pc = "idle"
    /\ \E a \in UpdateReleaseArguments :
        /\ Enter("update_release", a)
        /\ locals' = NoLocals
        /\ IF UpdateReleaseRejections(a) # {}
           THEN /\ \E message \in UpdateReleaseRejections(a) :
                      Finish(Thrown(McpError("InvalidParams", message)))
                /\ UNCHANGED sent
           ELSE Await("await_update_release",
                      RestPut(ApiUrl(<<"releases/">> \o a.reference),
                              JSONStringify(ReleasePayload(a.fields))))

UpdateReleaseReplied ==
    /\ pc = "await_update_release"
    /\ \E reply \in RestReplies(RestReleaseBodies) :
        /\ Resume("update_release", "await_update_release", reply)
        /\ Finish(UpdateReleaseContinue(reply))
        /\ UNCHANGED <<sent, locals>>

----------------------------------------------------------------------------
(* Pagination: the loop body shared by the three REST listings *)

\* data.pagination.total_pages || 1
\* variant: || 2
TotalPagesOrOne_DefaultsToTwo(pagination) ==
    IF "total_pages" \in DOMAIN pagination /\ pagination.total_pages # 0
    THEN pagination.total_pages
    ELSE 2
TotalPagesOrOne(pagination) ==
    IF "total_pages" \in DOMAIN pagination /\ pagination.total_pages # 0
    THEN pagination.total_pages
    ELSE 1

\* One pass of the loop body after the page was parsed: push the items of
\* `data[key]`, read the total from data.pagination, increment the page.
\* `loop` holds the accumulator, the current page and the total in effect.
\* variant: currentPage += 2
AccumulatePage_SkipsPage(loop, data, key) ==
    [items |-> IF key \in DOMAIN data THEN loop.items \o data[key] ELSE loop.items,
     totalPages |-> IF "pagination" \in DOMAIN data
                    THEN TotalPagesOrOne(data.pagination)
                    ELSE loop.totalPages,
     currentPage |-> loop.currentPage + 2]
\* variant: the total read from the first page only
AccumulatePage_KeepsFirstTotal(loop, data, key) ==
    [items |-> IF key \in DOMAIN data THEN loop.items \o data[key] ELSE loop.items,
     totalPages |-> IF "pagination" \in DOMAIN data /\ loop.currentPage = 1
                    THEN TotalPagesOrOne(data.pagination)
                    ELSE loop.totalPages,
     currentPage |-> loop.currentPage + 1]
\* variant: the accumulator assigned the items of the page, not extended
AccumulatePage_ReplacesItems(loop, data, key) ==
    [items |-> IF key \in DOMAIN data THEN data[key] ELSE loop.items,
     totalPages |-> IF "pagination" \in DOMAIN data
                    THEN TotalPagesOrOne(data.pagination)
                    ELSE loop.totalPages,
     currentPage |-> loop.currentPage + 1]
AccumulatePage(loop, data, key) ==
    [items |-> IF key \in DOMAIN data THEN loop.items \o data[key] ELSE loop.items,
     totalPages |-> IF "pagination" \in DOMAIN data
                    THEN TotalPagesOrOne(data.pagination)
                    ELSE loop.totalPages,
     currentPage |-> loop.currentPage + 1]

\* while (currentPage <= totalPages)
\* variant: one page past the total
LoopContinues_OnePastTotal(loop) == loop.currentPage <= loop.totalPages + 1
\* variant: < instead of <=
LoopContinues_OffByOne(loop) == loop.currentPage < loop.totalPages
LoopContinues(loop) == loop.currentPage <= loop.totalPages

\* let currentPage = 1; let totalPages = 1; with an empty accumulator
LoopStart == [items |-> <<>>, currentPage |-> 1, totalPages |-> 1]

\* the object with the keys of both, `g` winning
Merge(f, g) ==
    [k \in DOMAIN f \cup DOMAIN g |-> IF k \in DOMAIN g THEN g[k] ELSE f[k]]

\* the `pagination` part of a page body: absent, without a total, or with
\* a total among `totals`
PaginationParts(totals) ==
    {EmptyObject, Single("pagination", EmptyObject)}
    \cup {Single("pagination", [total_pages |-> t]) : t \in totals}

----------------------------------------------------------------------------
(* list_features_in_release *)

ListFeaturesPrefix == <<"Failed to list features in release: ">>

\* the default of the perPage argument
DefaultPerPage == 100

\* const { releaseReference, perPage = 100 } = request.params.arguments
PerPageOf(a) == IF "perPage" \in DOMAIN a THEN a.perPage ELSE DefaultPerPage

ListFeaturesArguments ==
    LET refs == {<<>>, <<"A", "-", "R", "-", "1">>}
        sizes == {50, 250}
    IN {EmptyObject}
       \cup {[releaseReference |-> r] : r \in refs}
       \cup {[perPage |-> n] : n \in sizes}
       \cup {[releaseReference |-> r, perPage |-> n] : r \in refs, n \in sizes}

\* the i-th feature the backend lists on page p of a release
FeatureItem(p, i) == [reference_num |-> <<"A-">>, page |-> p, index |-> i]

\* bodies the backend can answer the request for page p with
FeaturePageBodies(p) ==
    LET itemParts ==
            {EmptyObject}
            \cup {Single("features", [i \in 1..n |-> FeatureItem(p, i)]) :
                     n \in 0..MaxPageItems}
    IN {Merge(i, g) : i \in itemParts, g \in PaginationParts(0..MaxTotalPages)}

ListFeaturesRequest(a, currentPage) ==
    RestGet(PagedApiUrl(<<"releases/">> \o a.releaseReference \o <<"/features">>,
                        currentPage, PerPageOf(a)))

ListFeaturesResult(allFeatures) ==
    Returned(JSONStringify([total_count |-> Len(allFeatures),
                            features |-> allFeatures]))

HandleListFeaturesInRelease ==
    /\ pc = "idle"
    /\ \E a \in ListFeaturesArguments :
        /\ Enter("list_features_in_release", a)
        /\ IF FalsyArg(a, "releaseReference")
           THEN /\ Finish(Thrown(McpError("InvalidParams",
                      <<"Release reference is required (e.g., ACT-R-14 or ACTIVATION-R-14)">>)))
                /\ locals' = NoLocals
                /\ UNCHANGED sent
           ELSE /\ locals' = [allFeatures |-> LoopStart.items,
                              currentPage |-> LoopStart.currentPage,
                              totalPages |-> LoopStart.totalPages]
                /\ Await("await_features",
                         ListFeaturesRequest(a, LoopStart.currentPage))

ListFeaturesReplied ==
    /\ pc = "await_features"
    /\ \E reply \in RestReplies(FeaturePageBodies(inflight.url.page)) :
        /\ Resume("list_features_in_release", "await_features", reply)
        /\ IF FetchFailure(reply) # None
           THEN /\ Finish(Thrown(CatchBlock(ListFeaturesPrefix, FetchFailure(reply))))
                /\ UNCHANGED <<sent, locals>>
           ELSE LET loop == AccumulatePage(
                                [items |-> locals.allFeatures,
                                 currentPage |-> locals.currentPage,
                                 totalPages |-> locals.totalPages],
                                reply.value.body, "features")
                IN /\ locals' = [allFeatures |-> loop.items,
                                 currentPage |-> loop.currentPage,
                                 totalPages |-> loop.totalPages]
                   /\ IF LoopContinues(loop)
                      THEN Await("await_features",
                                 ListFeaturesRequest(args, loop.currentPage))
                      ELSE /\ Finish(ListFeaturesResult(loop.items))
                           /\ UNCHANGED sent

----------------------------------------------------------------------------
(* String operations of list_releases *)

UpperLetters ==
    << "A", "B", "C", "D", "E", "F", "G", "H", "I", "J", "K", "L", "M",
       "N", "O", "P", "Q", "R", "S", "T", "U", "V", "W", "X", "Y", "Z" >>
LowerLetters ==
    << "a", "b", "c", "d", "e", "f", "g", "h", "i", "j", "k", "l", "m",
       "n", "o", "p", "q", "r", "s", "t", "u", "v", "w", "x", "y", "z" >>

\* the lower-case letter of each upper-case letter
LowerOf ==
    [c \in {UpperLetters[i] : i \in 1..Len(UpperLetters)} |->
        LowerLetters[CHOOSE i \in 1..Len(UpperLetters) : UpperLetters[i] = c]]

LowerChar(c) == IF c \in DOMAIN LowerOf THEN LowerOf[c] ELSE c

\* String.prototype.toLowerCase
ToLowerCase(str) == [i \in 1..Len(str) |-> LowerChar(str[i])]

\* String.prototype.includes
Includes(str, search) ==
    \E start \in 1..(Len(str) - Len(search) + 1) :
        SubSeq(str, start, start + Len(search) - 1) = search

\* Array.prototype.join(", ") over strings, an undefined element giving ""
RECURSIVE JoinFrom(_, _)
JoinFrom(strs, i) ==
    IF i > Len(strs) THEN <<>>
    ELSE IF i = Len(strs) THEN strs[i]
    ELSE strs[i] \o <<", ">> \o JoinFrom(strs, i + 1)
Join(strs) == JoinFrom(strs, 1)

----------------------------------------------------------------------------
(* list_releases *)

ListReleasesPrefix == <<"Failed to list releases: ">>

\* products of the backend: two whose prefixes differ in case only, one
\* whose prefix extends theirs, one without a prefix
ProductAB == [id |-> "101", reference_prefix |-> <<"A", "B">>, name |-> <<"Alpha">>]
ProductAb == [id |-> "102", reference_prefix |-> <<"A", "b">>, name |-> <<"Beta">>]
ProductABC ==
    [id |-> "103", reference_prefix |-> <<"A", "B", "C">>, name |-> <<"Gamma">>]
ProductNoPrefix == [id |-> "104", name |-> <<"Delta">>]
Products == {ProductAB, ProductAb, ProductABC, ProductNoPrefix}

\* releases of the backend; the last has no name
ReleaseQ1 ==
    [reference_num |-> <<"AB-R-1">>, name |-> <<"F", "Y", "Q", "1">>,
     parking_lot |-> <<"false">>, id |-> <<"r1">>]
ReleaseQ2 ==
    [reference_num |-> <<"AB-R-2">>, name |-> <<"f", "y", "q", "2">>,
     release_date |-> <<"2027-06-30">>]
ReleaseUnnamed == [reference_num |-> <<"AB-R-3">>]
Releases == {ReleaseQ1, ReleaseQ2, ReleaseUnnamed}

\* the item arrays a page of each collection can carry: none or one of the
\* items, and for products a page of two whose prefixes differ in case only
ProductPages ==
    {<<>>} \cup {<<x>> : x \in Products} \cup {<<ProductAb, ProductAB>>}
ReleasePages == {<<>>} \cup {<<x>> : x \in Releases}

\* page bodies of the two collections: the item array, or none, and a
\* declared total of zero, one or two pages
ListPageBodies(key, pages) ==
    LET itemParts == {EmptyObject} \cup {Single(key, a) : a \in pages}
    IN {Merge(i, g) : i \in itemParts, g \in PaginationParts({0, 1, 2})}

ListReleasesArguments ==
    LET prefixes == {<<>>, <<"a", "b">>, <<"A", "B">>, <<"A">>}
        names == {<<>>, <<"q", "1">>, <<"F", "Y">>}
    IN {EmptyObject}
       \cup {[workspacePrefix |-> w] : w \in prefixes}
       \cup {[name |-> n] : n \in names}
       \cup {[workspacePrefix |-> w, name |-> n] : w \in prefixes, n \in names}

ProductsRequest(productsPage) ==
    RestGet(PagedApiUrl(<<"products">>, productsPage, 100))

ReleasesRequest(product, currentPage) ==
    RestGet(PagedApiUrl(<<"products/", product.id, "/releases">>,
                        currentPage, 100))

\* p.reference_prefix?.toLowerCase() === workspacePrefix.toLowerCase()
\* variant: the two strings compared as they are
PrefixMatches_CaseSensitive(p, workspacePrefix) ==
    /\ "reference_prefix" \in DOMAIN p
    /\ p.reference_prefix = workspacePrefix
PrefixMatches(p, workspacePrefix) ==
    /\ "reference_prefix" \in DOMAIN p
    /\ ToLowerCase(p.reference_prefix) = ToLowerCase(workspacePrefix)

\* allProducts.find(...): the first match, Undefined when there is none
\* variant: the last match
FindProduct_Last(allProducts, workspacePrefix) ==
    LET hits == {i \in 1..Len(allProducts) :
                     PrefixMatches(allProducts[i], workspacePrefix)}
    IN IF hits = {} THEN Undefined
       ELSE allProducts[CHOOSE i \in hits : \A j \in hits : i >= j]
FindProduct(allProducts, workspacePrefix) ==
    LET hits == {i \in 1..Len(allProducts) :
                     PrefixMatches(allProducts[i], workspacePrefix)}
    IN IF hits = {} THEN Undefined
       ELSE allProducts[CHOOSE i \in hits : \A j \in hits : i <= j]

\* allProducts.map(p => p.reference_prefix).join(", ") || "none"
AvailableWorkspaces(allProducts) ==
    LET joined == Join([i \in 1..Len(allProducts) |->
                           IF "reference_prefix" \in DOMAIN allProducts[i]
                           THEN allProducts[i].reference_prefix
                           ELSE <<>>])
    IN IF joined = <<>> THEN <<"none">> ELSE joined

\* variant: no matching product thrown as an error
WorkspaceNotFound_Throws(workspacePrefix, allProducts) ==
    Thrown(McpError("InvalidParams",
                    <<"No workspace found with prefix \"">> \o workspacePrefix
                    \o <<"\". Available workspaces: ">>
                    \o AvailableWorkspaces(allProducts)))
WorkspaceNotFound(workspacePrefix, allProducts) ==
    Returned(PlainText(<<"No workspace found with prefix \"">> \o workspacePrefix
                       \o <<"\". Available workspaces: ">>
                       \o AvailableWorkspaces(allProducts)))

\* r.name?.toLowerCase().includes(searchName)
\* variant: the name not lowered before the search
NameMatches_CaseSensitive(r, searchName) ==
    /\ "name" \in DOMAIN r
    /\ Includes(r.name, searchName)
NameMatches(r, searchName) ==
    /\ "name" \in DOMAIN r
    /\ Includes(ToLowerCase(r.name), searchName)

\* allReleases.filter(r => ...), from release i
RECURSIVE FilterByName(_, _, _)
FilterByName(allReleases, i, searchName) ==
    IF i > Len(allReleases) THEN <<>>
    ELSE IF NameMatches(allReleases[i], searchName)
    THEN <<allReleases[i]>> \o FilterByName(allReleases, i + 1, searchName)
    ELSE FilterByName(allReleases, i + 1, searchName)

\* the name filter: applied when `name` is given and not empty
FilterReleases(allReleases, a) ==
    IF FalsyArg(a, "name") THEN allReleases
    ELSE FilterByName(allReleases, 1, ToLowerCase(a.name))

\* the six fields a release is projected to; JSON.stringify leaves out the
\* ones the release does not have
FormattedFields ==
    {"reference_num", "name", "start_date", "release_date", "parking_lot", "url"}
FormatRelease(r) == [k \in DOMAIN r \cap FormattedFields |-> r[k]]

\* variant: total_count: allReleases.length
ListReleasesResult_CountsUnfiltered(product, allReleases, a) ==
    LET filteredReleases == FilterReleases(allReleases, a)
        formattedReleases ==
            [i \in 1..Len(filteredReleases) |-> FormatRelease(filteredReleases[i])]
    IN Returned(JSONStringify(
           [workspace |-> [prefix |-> product.reference_prefix,
                           name |-> product.name,
                           id |-> product.id],
            total_count |-> Len(allReleases),
            releases |-> formattedReleases]))
ListReleasesResult(product, allReleases, a) ==
    LET filteredReleases == FilterReleases(allReleases, a)
        formattedReleases ==
            [i \in 1..Len(filteredReleases) |-> FormatRelease(filteredReleases[i])]
    IN Returned(JSONStringify(
           [workspace |-> [prefix |-> product.reference_prefix,
                           name |-> product.name,
                           id |-> product.id],
            total_count |-> Len(formattedReleases),
            releases |-> formattedReleases]))

HandleListReleases ==
    /\ pc = "idle"
    /\ \E a \in ListReleasesArguments :
        /\ Enter("list_releases", a)
        /\ IF FalsyArg(a, "workspacePrefix")
           THEN /\ Finish(Thrown(McpError("InvalidParams",
                      <<"Workspace prefix is required (e.g., ACT, ACTIVATION, DEVELOP)">>)))
                /\ locals' = NoLocals
                /\ UNCHANGED sent
           ELSE /\ locals' = [allProducts |-> LoopStart.items,
                              productsPage |-> LoopStart.currentPage,
                              productsTotalPages |-> LoopStart.totalPages]
                /\ Await("await_products", ProductsRequest(LoopStart.currentPage))

\* a page of products arrives; after the last one the workspace is
\* resolved and the first page of its releases is requested
ListReleasesProductsReplied ==
    /\ pc = "await_products"
    /\ \E reply \in RestReplies(ListPageBodies("products", ProductPages)) :
        /\ Resume("list_releases", "await_products", reply)
        /\ IF FetchFailure(reply) # None
           THEN /\ Finish(Thrown(CatchBlock(ListReleasesPrefix, FetchFailure(reply))))
                /\ UNCHANGED <<sent, locals>>
           ELSE LET loop == AccumulatePage(
                                [items |-> locals.allProducts,
                                 currentPage |-> locals.productsPage,
                                 totalPages |-> locals.productsTotalPages],
                                reply.value.body, "products")
                    after == [allProducts |-> loop.items,
                              productsPage |-> loop.currentPage,
                              productsTotalPages |-> loop.totalPages]
                    product == FindProduct(loop.items, args.workspacePrefix)
                IN IF LoopContinues(loop)
                   THEN /\ locals' = after
                        /\ Await("await_products", ProductsRequest(loop.currentPage))
                   ELSE IF ~Truthy(product)
                   THEN /\ locals' = after
                        /\ Finish(WorkspaceNotFound(args.workspacePrefix, loop.items))
                        /\ UNCHANGED sent
                   ELSE /\ locals' = Merge(after,
                                       [product |-> product,
                                        allReleases |-> LoopStart.items,
                                        currentPage |-> LoopStart.currentPage,
                                        totalPages |-> LoopStart.totalPages])
                        /\ Await("await_releases",
                                 ReleasesRequest(product, LoopStart.currentPage))

\* a page of releases arrives; after the last one the releases are
\* filtered, projected and returned
ListReleasesReleasesReplied ==
    /\ pc = "await_releases"
    /\ \E reply \in RestReplies(ListPageBodies("releases", ReleasePages)) :
        /\ Resume("list_releases", "await_releases", reply)
        /\ IF FetchFailure(reply) # None
           THEN /\ Finish(Thrown(CatchBlock(ListReleasesPrefix, FetchFailure(reply))))
                /\ UNCHANGED <<sent, locals>>
           ELSE LET loop == AccumulatePage(
                                [items |-> locals.allReleases,
                                 currentPage |-> locals.currentPage,
                                 totalPages |-> locals.totalPages],
                                reply.value.body, "releases")
                IN /\ locals' = Merge(locals,
                                      [allReleases |-> loop.items,
                                       currentPage |-> loop.currentPage,
                                       totalPages |-> loop.totalPages])
                   /\ IF LoopContinues(loop)
                      THEN Await("await_releases",
                                 ReleasesRequest(locals.product, loop.currentPage))
                      ELSE /\ Finish(ListReleasesResult(locals.product, loop.items, args))
                           /\ UNCHANGED sent

----------------------------------------------------------------------------
(* The invocation cycle *)

\* handlers whose first statement destructures request.params.arguments
\* (handleIntrospectFeature takes no request)
DestructuringHandlers ==
    { "get_record", "get_page", "search_documents", "get_record_rest",
      "update_feature", "list_features_in_release", "list_releases" }

\* destructuring undefined
DestructuringTypeError ==
    [type |-> "TypeError",
     message |-> <<"Cannot destructure property of undefined">>]

\* a request without an arguments object: the destructuring statement,
\* which stands before the handler's try block, throws
CallWithoutArguments ==
    /\ pc = "idle"
    /\ \E t \in DestructuringHandlers :
        /\ Enter(t, Undefined)
        /\ Finish(Thrown(DestructuringTypeError))
        /\ locals' = NoLocals
        /\ UNCHANGED sent

\* a tool call carries a name the if-chain has no branch for:
\* throw new McpError(ErrorCode.MethodNotFound, `Unknown tool: ${name}`)
CallUnknownTool ==
    /\ pc = "idle"
    /\ \E n \in ToolNames :
        /\ Dispatch(n) = "none"
        /\ called' = n
        /\ tool' = "none"
        /\ args' = EmptyObject
        /\ locals' = NoLocals
        /\ received' = <<>>
        /\ Finish(Thrown(McpError("MethodNotFound", <<"Unknown tool: ", n>>)))
        /\ UNCHANGED <<sent, suspended>>

Init ==
    /\ called = "none"
    /\ pc = "idle"
    /\ tool = "none"
    /\ args = EmptyObject
    /\ locals = NoLocals
    /\ inflight = None
    /\ sent = <<>>
    /\ received = <<>>
    /\ outcome = NoOutcome
    /\ suspended = IdleInvocation

\* The event loop turns from the running invocation, which waits at an
\* await point (or has not begun, or has ended), to the other one.  What a
\* handler declares inside its body goes with its invocation.
\* variant: the accumulators and page counters kept outside the handlers
Switch_SharedLocals ==
    /\ Invocation # suspended
    /\ suspended' = Invocation
    /\ called' = suspended.called
    /\ pc' = suspended.pc
    /\ tool' = suspended.tool
    /\ args' = suspended.args
    /\ locals' = locals
    /\ inflight' = suspended.inflight
    /\ sent' = suspended.sent
    /\ received' = suspended.received
    /\ outcome' = suspended.outcome
Switch ==
    /\ Invocation # suspended
    /\ suspended' = Invocation
    /\ called' = suspended.called
    /\ pc' = suspended.pc
    /\ tool' = suspended.tool
    /\ args' = suspended.args
    /\ locals' = suspended.locals
    /\ inflight' = suspended.inflight
    /\ sent' = suspended.sent
    /\ received' = suspended.received
    /\ outcome' = suspended.outcome

\* the result or error is handed to the caller; nothing of the invocation
\* survives it
Return ==
    /\ pc = "done"
    /\ pc' = "idle"
    /\ called' = "none"
    /\ tool' = "none"
    /\ args' = EmptyObject
    /\ locals' = NoLocals
    /\ inflight' = None
    /\ sent' = <<>>
    /\ received' = <<>>
    /\ outcome' = NoOutcome
    /\ UNCHANGED suspended

Next ==
    \/ HandleGetRecord
    \/ GetRecordReplied
    \/ HandleGetPage
    \/ GetPageReplied
    \/ HandleSearchDocuments
    \/ SearchDocumentsReplied
    \/ HandleIntrospectFeature
    \/ IntrospectFeatureReplied
    \/ HandleGetRecordRest
    \/ GetRecordRestReplied
    \/ HandleUpdateFeature
    \/ UpdateFeatureReplied
    \/ HandleListFeaturesInRelease
    \/ ListFeaturesReplied
    \/ HandleListReleases
    \/ ListReleasesProductsReplied
    \/ ListReleasesReleasesReplied
    \/ HandleUpdateRelease
    \/ UpdateReleaseReplied
    \/ CallWithoutArguments
    \/ CallUnknownTool
    \/ Return

Spec == Init /\ [][Next]_vars

\* The listings alone, with a backend that answers every request it is
\* sent: each `await fetch(...)` of the three loops is eventually resumed.
PaginationNext ==
    \/ HandleListFeaturesInRelease
    \/ ListFeaturesReplied
    \/ HandleListReleases
    \/ ListReleasesProductsReplied
    \/ ListReleasesReleasesReplied
    \/ Return

PaginationSpec ==
    /\ Init
    /\ [][PaginationNext]_vars
    /\ WF_vars(ListFeaturesReplied)
    /\ WF_vars(ListReleasesProductsReplied)
    /\ WF_vars(ListReleasesReleasesReplied)

\* Two invocations of the paginating tools, interleaved at their await
\* points.  The requests are kept to one per tool and the pages to parsed
\* ones that carry their items and a total: one page of products, one or
\* two pages of features and of releases.
InterleavedPage(reply, key, totals) ==
    /\ reply.kind = "resolve"
    /\ reply.value.ok
    /\ "body" \in DOMAIN reply.value
    /\ key \in DOMAIN reply.value.body
    /\ "pagination" \in DOMAIN reply.value.body
    /\ "total_pages" \in DOMAIN reply.value.body.pagination
    /\ reply.value.body.pagination.total_pages \in totals

InterleavedInputs ==
    /\ tool = "list_features_in_release" =>
          /\ args = [releaseReference |-> <<"A", "-", "R", "-", "1">>]
          /\ \A i \in 1..Len(received) :
                InterleavedPage(received[i], "features", {1, 2})
    /\ tool = "list_releases" =>
          /\ args \in {[workspacePrefix |-> <<"a", "b">>],
                        [workspacePrefix |-> <<"a", "b">>, name |-> <<"q", "1">>]}
          /\ \A i \in 1..Len(received) :
                IF i = 1
                THEN InterleavedPage(received[i], "products", {1})
                ELSE InterleavedPage(received[i], "releases", {1, 2})

InterleavedListFeatures == HandleListFeaturesInRelease /\ InterleavedInputs'
InterleavedFeaturesReplied == ListFeaturesReplied /\ InterleavedInputs'
InterleavedListReleases == HandleListReleases /\ InterleavedInputs'
InterleavedProductsReplied == ListReleasesProductsReplied /\ InterleavedInputs'
InterleavedReleasesReplied == ListReleasesReleasesReplied /\ InterleavedInputs'

InterleavedNext ==
    \/ InterleavedListFeatures
    \/ InterleavedFeaturesReplied
    \/ InterleavedListReleases
    \/ InterleavedProductsReplied
    \/ InterleavedReleasesReplied
    \/ Switch
    \/ Return

InterleavedSpec == Init /\ [][InterleavedNext]_vars

----------------------------------------------------------------------------
(* Properties *)

Last(seq) == seq[Len(seq)]

HasReference == "reference" \in DOMAIN args /\ args.reference # <<>>

IsFeatureRef(s) == RegexTest(FEATURE_REF_REGEX, s)
IsRequirementRef(s) == RegexTest(REQUIREMENT_REF_REGEX, s)
IsPageRef(s) == RegexTest(NOTE_REF_REGEX, s)

ThrewMcpError(code) ==
    /\ pc = "done"
    /\ outcome.kind = "throw"
    /\ outcome.error.type = "McpError"
    /\ outcome.error.code = code

\* the backend answered the only request with data that is not null
AnsweredWithData ==
    /\ pc = "done"
    /\ Len(received) = 1
    /\ received[1].kind = "resolve"
    /\ received[1].value # Null

\* C1: get_record issues exactly one request, the feature query with
\* {id: reference} for a Feature-shaped reference and the requirement query
\* with {id: reference} for a Requirement-shaped one, never the other query,
\* and returns the `feature` / `requirement` of the response.
C1_GetRecordRoutesByShape ==
    (tool = "get_record" /\ HasReference) =>
        LET ref == args.reference
            RoutedTo(query, key) ==
                /\ sent = <<GraphQLRequest(query, [id |-> ref])>>
                /\ (AnsweredWithData /\ Truthy(Get(received[1].value, key)))
                      => outcome = Returned(JSONStringify(received[1].value[key]))
        IN /\ IsFeatureRef(ref) => RoutedTo(getFeatureQuery, "feature")
           /\ IsRequirementRef(ref) => RoutedTo(getRequirementQuery, "requirement")

\* a Requirement-shaped reference was answered with a requirement
C1_Witness ==
    /\ tool = "get_record"
    /\ HasReference
    /\ IsRequirementRef(args.reference)
    /\ AnsweredWithData
    /\ "requirement" \in DOMAIN received[1].value
    /\ outcome.kind = "return"
    /\ "json" \in DOMAIN outcome.content[1].text

\* C2: a non-empty reference of the wrong shape ends get_record and
\* get_page with an InvalidParams error and no backend request.
C2_WrongShapeRejected ==
    LET Rejected_ == ThrewMcpError("InvalidParams") /\ sent = <<>>
    IN /\ (tool = "get_record" /\ HasReference
           /\ ~IsFeatureRef(args.reference) /\ ~IsRequirementRef(args.reference))
              => Rejected_
       /\ (tool = "get_page" /\ HasReference /\ ~IsPageRef(args.reference))
              => Rejected_

\* get_record was given a Page-shaped reference
C2_Witness ==
    /\ tool = "get_record"
    /\ HasReference
    /\ IsPageRef(args.reference)
    /\ ThrewMcpError("InvalidParams")

\* C3: at most one of the three reference patterns matches a reference.
C3_PatternsMutuallyExclusive ==
    ("reference" \in DOMAIN args) =>
        Cardinality({re \in {FEATURE_REF_REGEX, REQUIREMENT_REF_REGEX,
                             NOTE_REF_REGEX} :
                        RegexTest(re, args.reference)}) <= 1

\* a reference of five characters that the Page pattern matches was tested
C3_Witness ==
    /\ tool = "get_page"
    /\ pc = "await_page"
    /\ Len(args.reference) = 5
    /\ IsPageRef(args.reference)
    /\ ~IsRequirementRef(args.reference)

\* the arguments object given to the running handler lacks the required
\* argument or holds an empty one
RequiredArgumentMissing ==
    /\ args # Undefined
    /\ \/ /\ tool \in {"get_record", "get_page", "get_record_rest", "update_feature"}
          /\ FalsyArg(args, "reference")
       \/ tool = "search_documents" /\ FalsyArg(args, "query")
       \/ tool = "list_features_in_release" /\ FalsyArg(args, "releaseReference")
       \/ tool = "list_releases" /\ FalsyArg(args, "workspacePrefix")
       \/ /\ tool = "update_feature"
          /\ ("fields" \notin DOMAIN args \/ Len(args.fields) = 0)

C5_NotFoundIsSoft ==
    /\ (tool = "get_record" /\ AnsweredWithData
        /\ \/ IsFeatureRef(args.reference)
              /\ ~Truthy(Get(received[1].value, "feature"))
           \/ IsRequirementRef(args.reference)
              /\ ~Truthy(Get(received[1].value, "requirement")))
          => outcome = Returned(PlainText(<<"No record found for reference ">>
                                          \o args.reference))
    /\ (tool = "get_page" /\ AnsweredWithData
        /\ ~Truthy(Get(received[1].value, "page")))
          => outcome = Returned(PlainText(<<"No page found for reference ">>
                                          \o args.reference))

\* get_record was answered {requirement: null}
C5_Witness ==
    /\ tool = "get_record"
    /\ AnsweredWithData
    /\ IsRequirementRef(args.reference)
    /\ "requirement" \in DOMAIN received[1].value
    /\ received[1].value.requirement = Null
    /\ outcome.kind = "return"

\* the last request of the invocation was rejected with `error`
TransportRejected ==
    /\ pc = "done"
    /\ received # <<>>
    /\ Last(received).kind = "reject"

\* C6: a transport failure that is an McpError is re-raised as it is.
C6_McpErrorRethrown ==
    (TransportRejected /\ Last(received).error.type = "McpError")
        => outcome = Thrown(Last(received).error)

\* the second products request of list_releases was rejected with an McpError
C6_Witness ==
    /\ tool = "list_releases"
    /\ TransportRejected
    /\ Len(received) = 2
    /\ Last(received).error.type = "McpError"
    /\ outcome.kind = "throw"

\* the message prefixes of the operations
OperationPrefix(t) ==
    CASE t = "get_record" -> <<"Failed to fetch record: ">>
      [] t = "get_page" -> <<"Failed to fetch page: ">>
      [] t = "search_documents" -> <<"Failed to search documents: ">>
      [] t = "introspect_feature" -> <<"Failed to introspect: ">>
      [] t = "get_record_rest" -> <<"Failed to fetch record via REST: ">>
      [] t = "update_feature" -> <<"Failed to update feature: ">>
      [] t = "list_features_in_release" -> <<"Failed to list features in release: ">>
      [] t = "list_releases" -> <<"Failed to list releases: ">>
      [] t = "update_release" -> <<"Failed to update release: ">>

\* the last REST request was answered with a status that is not a success
RestNotOk ==
    /\ pc = "done"
    /\ received # <<>>
    /\ Last(received).kind = "resolve"
    /\ "ok" \in DOMAIN Last(received).value
    /\ ~Last(received).value.ok

StatusMessage(response) ==
    <<"REST API error: ", response.status, " ", response.statusText>>

WrappedAs(message) ==
    outcome = Thrown(McpError("InternalError", OperationPrefix(tool) \o message))

\* C7 as stated: every failure that is not an McpError is one InternalError,
\* the prefix of the operation followed by the original message, which for
\* a REST status is 'REST API error: {status} {statusText}'.
C7_AsStated ==
    /\ (TransportRejected /\ Last(received).error.type # "McpError")
          => WrappedAs(ErrorMessage(Last(received).error))
    /\ RestNotOk => WrappedAs(StatusMessage(Last(received).value))

\* C7 amended: as stated, except that update_feature appends
\* ' - {errorBody}', the text of the response, to the REST status message.
C7_FailureWrappedWithPrefix ==
    /\ (TransportRejected /\ Last(received).error.type # "McpError")
          => WrappedAs(ErrorMessage(Last(received).error))
    /\ (RestNotOk /\ tool # "update_feature")
          => WrappedAs(StatusMessage(Last(received).value))
    /\ (RestNotOk /\ tool = "update_feature")
          => WrappedAs(StatusMessage(Last(received).value) \o <<" - ">>
                       \o Last(received).value.text)

\* get_record_rest was answered 404
C7_Witness ==
    /\ tool = "get_record_rest"
    /\ RestNotOk
    /\ Last(received).value.status = "404"
    /\ outcome.kind = "throw"

\* the standard feature field set of the specification
StandardFieldSet ==
    { "name", "workflow_kind", "workflow_status", "release", "description",
      "created_by", "assigned_to_user", "tags", "initial_estimate_text",
      "detailed_estimate_text", "remaining_estimate_text", "initial_estimate",
      "detailed_estimate", "remaining_estimate", "start_date", "due_date",
      "release_phase", "initiative", "epic", "progress_source", "progress",
      "team", "team_workflow_status", "iteration", "program_increment" }

\* update_feature has issued its request
UpdateSent == tool = "update_feature" /\ sent # <<>>

\* the `feature` wrapper of the mutation body
SentFeature == sent[1].body.json.feature

\* the object under feature.custom_fields, empty when the key is absent
SentCustomFields ==
    IF "custom_fields" \in DOMAIN SentFeature
    THEN SentFeature.custom_fields
    ELSE EmptyObject

\* C8: every key of the payload is at the top level of `feature` with its
\* value if it is one of the 25 standard names and under
\* feature.custom_fields with its value otherwise, in one place only, and
\* the body holds no other key; this for every order of the payload.
C8_FieldsPartitionedByMembership ==
    UpdateSent =>
        LET keys == {args.fields[i].key : i \in DOMAIN args.fields}
        IN /\ Cardinality(StandardFieldSet) = 25
           /\ \A i \in DOMAIN args.fields :
                 LET key == args.fields[i].key
                     value == args.fields[i].value
                 IN IF key \in StandardFieldSet
                    THEN /\ key \in DOMAIN SentFeature
                         /\ SentFeature[key] = value
                         /\ key \notin DOMAIN SentCustomFields
                    ELSE /\ key \in DOMAIN SentCustomFields
                         /\ SentCustomFields[key] = value
                         /\ key \notin DOMAIN SentFeature \ {"custom_fields"}
           /\ DOMAIN SentFeature \ {"custom_fields"} = keys \cap StandardFieldSet
           /\ DOMAIN SentCustomFields = keys \ StandardFieldSet

\* a payload of a custom key followed by a standard key was sent
C8_Witness ==
    /\ UpdateSent
    /\ Len(args.fields) = 2
    /\ args.fields[1].key = "go_live_date"
    /\ args.fields[2].key = "program_increment"

\* C9: the body has the key custom_fields exactly when the payload has a
\* key outside the standard set, and then it is not an empty object.
C9_CustomFieldsOnlyWhenNonEmpty ==
    UpdateSent =>
        /\ ("custom_fields" \in DOMAIN SentFeature)
              <=> (\E i \in DOMAIN args.fields :
                      args.fields[i].key \notin StandardFieldSet)
        /\ ("custom_fields" \in DOMAIN SentFeature)
              => DOMAIN SentFeature.custom_fields # {}

\* a payload of standard keys only was sent without custom_fields
C9_Witness ==
    /\ UpdateSent
    /\ Len(args.fields) = 2
    /\ \A i \in DOMAIN args.fields : args.fields[i].key \in StandardFieldSet
    /\ "custom_fields" \notin DOMAIN SentFeature

\* every page response so far succeeded and declared the total t
AllPagesDeclare(t) ==
    \A i \in 1..Len(received) :
        /\ received[i].kind = "resolve"
        /\ "body" \in DOMAIN received[i].value
        /\ "pagination" \in DOMAIN received[i].value.body
        /\ "total_pages" \in DOMAIN received[i].value.body.pagination
        /\ received[i].value.body.pagination.total_pages = t

\* the item arrays of the page responses i.., concatenated
RECURSIVE ReceivedItems(_, _)
ReceivedItems(key, i) ==
    IF i > Len(received) THEN <<>>
    ELSE (IF key \in DOMAIN received[i].value.body
          THEN received[i].value.body[key] ELSE <<>>)
         \o ReceivedItems(key, i + 1)

\* C10: when every page response of list_features_in_release succeeds and
\* declares the same total T >= 1, the pages 1, 2, ..., T are fetched in
\* that order, each once, and `features` is the concatenation of the item
\* arrays in page order.
C10_ConstantTotalFetchesEachPageOnce ==
    \A t \in 1..(MaxTotalPages + 1) :
        (tool = "list_features_in_release" /\ sent # <<>> /\ AllPagesDeclare(t)) =>
            /\ \A i \in 1..Len(sent) : sent[i].url.page = i
            /\ Len(sent) <= t
            /\ Len(sent) = Len(received) + (IF pc = "done" THEN 0 ELSE 1)
            /\ (pc = "done") <=> (Len(received) = t)
            /\ (pc = "done") =>
                  outcome = Returned(JSONStringify(
                      [total_count |-> Len(ReceivedItems("features", 1)),
                       features |-> ReceivedItems("features", 1)]))

\* three pages, each declaring a total of three, were fetched with a
\* perPage of 50 and gave one item each
C10_Witness ==
    /\ tool = "list_features_in_release"
    /\ pc = "done"
    /\ AllPagesDeclare(3)
    /\ Len(sent) = 3
    /\ "perPage" \in DOMAIN args
    /\ args.perPage = 50
    /\ outcome.kind = "return"
    /\ Len(outcome.content[1].text.json.features) = 3

\* the total a page response declares, 0 when it declares none
DeclaredTotal(reply) ==
    IF /\ "pagination" \in DOMAIN reply.value.body
       /\ "total_pages" \in DOMAIN reply.value.body.pagination
    THEN reply.value.body.pagination.total_pages
    ELSE 0

\* the JSON value of a returned result
ResultJson == outcome.content[1].text.json

\* C11: when list_features_in_release returns, `total_count` is the number
\* of items of all the page responses received, which is also the length of
\* `features`; the totals the pages declare play no part in it.
C11_TotalCountIsItemsReceived ==
    (tool = "list_features_in_release" /\ pc = "done" /\ outcome.kind = "return") =>
        /\ ResultJson.total_count = Len(ReceivedItems("features", 1))
        /\ ResultJson.total_count = Len(ResultJson.features)
        /\ ResultJson.features = ReceivedItems("features", 1)

\* three pages were received that declared three different totals, one of
\* them without items, and the count reported is two
C11_Witness ==
    /\ tool = "list_features_in_release"
    /\ pc = "done"
    /\ outcome.kind = "return"
    /\ Len(received) = 3
    /\ DeclaredTotal(received[1]) = 2
    /\ DeclaredTotal(received[2]) = 3
    /\ DeclaredTotal(received[3]) = 1
    /\ ResultJson.total_count = 2

\* the fetch answered by `reply` threw or gave a status that is not ok
PageFailed(reply) == reply.kind = "reject" \/ ~reply.value.ok

\* the operations that paginate
Paginates == tool \in {"list_features_in_release", "list_releases"}

\* C12: in list_features_in_release and in both loops of list_releases, a
\* page fetch that throws or answers with a status that is not ok is the
\* last reply consumed and its request the last one issued; the invocation
\* has then ended in an error, so no item of the earlier pages is returned.
C12_PaginationAllOrNothing ==
    Paginates =>
        \A k \in 1..Len(received) :
            PageFailed(received[k]) =>
                /\ k = Len(received)
                /\ Len(sent) = k
                /\ pc = "done"
                /\ outcome.kind = "throw"
                /\ outcome.error.type = "McpError"

\* the second page of releases failed after the first page had given a
\* release: the invocation threw and the release stayed in the handler
C12_Witness ==
    /\ tool = "list_releases"
    /\ pc = "done"
    /\ Len(received) = 3
    /\ PageFailed(received[3])
    /\ received[3].kind = "resolve"
    /\ Len(locals.allReleases) = 1
    /\ outcome = Thrown(McpError("InternalError",
                   ListReleasesPrefix
                   \o <<"REST API error: ", "500", " ", "Internal Server Error">>))

\* requests of the two loops of list_releases
IsProductsRequest(req) == req = ProductsRequest(req.url.page)
IsReleasesRequest(req) ==
    \E p \in Products : req = ReleasesRequest(p, req.url.page)

\* the requests among `sent` that satisfy Test, in order
Requests(Test(_)) == SelectSeq(sent, Test)

\* `reply` is a parsed page that declares a total of 0 or no total
NoTotalOrZero(reply) ==
    /\ reply.kind = "resolve"
    /\ reply.value.ok
    /\ "body" \in DOMAIN reply.value
    /\ DeclaredTotal(reply) = 0

\* the items of the page response i under `key`
ItemsOf(key, i) ==
    IF key \in DOMAIN received[i].value.body
    THEN received[i].value.body[key] ELSE <<>>

\* the reference numbers of a sequence of releases
ReferenceNums(rs) == [i \in 1..Len(rs) |-> rs[i].reference_num]

\* the first reply to a releases request, 0 when none has arrived
FirstReleasesReply ==
    IF Len(received) >= Len(Requests(IsProductsRequest)) + 1
    THEN Len(Requests(IsProductsRequest)) + 1 ELSE 0

\* C13: when the first page response of a loop declares a total of 0 or
\* declares no total, that loop issues no second fetch and goes on with the
\* items of that page: list_features_in_release returns them, the products
\* loop resolves the workspace among them, the releases loop returns them.
C13_NoTotalStopsAfterOneFetch ==
    /\ (tool = "list_features_in_release" /\ received # <<>>
            /\ NoTotalOrZero(received[1])) =>
          /\ Len(sent) = 1
          /\ pc = "done"
          /\ outcome = Returned(JSONStringify(
                 [total_count |-> Len(ItemsOf("features", 1)),
                  features |-> ItemsOf("features", 1)]))
    /\ (tool = "list_releases" /\ received # <<>>
            /\ NoTotalOrZero(received[1])) =>
          /\ Len(Requests(IsProductsRequest)) = 1
          /\ locals.allProducts = ItemsOf("products", 1)
          /\ pc # "await_products"
    /\ (tool = "list_releases" /\ FirstReleasesReply # 0
            /\ NoTotalOrZero(received[FirstReleasesReply])) =>
          /\ Len(Requests(IsReleasesRequest)) = 1
          /\ locals.allReleases = ItemsOf("releases", FirstReleasesReply)
          /\ pc = "done"
          /\ outcome.kind = "return"
          /\ FalsyArg(args, "name") =>
                 ReferenceNums(ResultJson.releases)
                     = ReferenceNums(ItemsOf("releases", FirstReleasesReply))

\* a first page with one feature declared a total of 0 and was returned
\* after a single fetch
C13_Witness ==
    /\ tool = "list_features_in_release"
    /\ pc = "done"
    /\ Len(sent) = 1
    /\ outcome.kind = "return"
    /\ "pagination" \in DOMAIN received[1].value.body
    /\ "total_pages" \in DOMAIN received[1].value.body.pagination
    /\ received[1].value.body.pagination.total_pages = 0
    /\ ResultJson.total_count = 1

\* `reply` is a parsed page without a total-page count: it has no
\* pagination object, or one without total_pages
CarriesNoTotal(reply) ==
    /\ reply.kind = "resolve"
    /\ reply.value.ok
    /\ "body" \in DOMAIN reply.value
    /\ ~ /\ "pagination" \in DOMAIN reply.value.body
         /\ "total_pages" \in DOMAIN reply.value.body.pagination

\* two requests of the same loop differ in the page number only
SameLoop(req, other) == req.url.path = other.url.path

\* C14: the total-page count is read from each page response and is 1 when
\* the response has none, so after a page response without a total-page
\* count (the first or a later one) the loop that asked for it issues no
\* further fetch, whatever total an earlier response declared.
C14_NoFetchAfterPageWithoutTotal ==
    Paginates =>
        \A k \in 1..Len(received) :
            CarriesNoTotal(received[k]) =>
                \A j \in (k + 1)..Len(sent) : ~SameLoop(sent[k], sent[j])

\* two characters are the same letter in either case, or the same character
LetterPairs ==
    {{UpperLetters[i], LowerLetters[i]} : i \in 1..Len(UpperLetters)}
SameLetter(c, d) == c = d \/ {c, d} \in LetterPairs

\* two strings of the same length that differ in letter case only
EqualIgnoringCase(s, t) ==
    /\ Len(s) = Len(t)
    /\ \A i \in 1..Len(s) : SameLetter(s[i], t[i])

\* the strings that differ from `w` in letter case only
CaseVariants(w) ==
    {v \in [1..Len(w) -> {"A", "a", "B", "b"}] : EqualIgnoringCase(v, w)}

\* the same, for each workspacePrefix list_releases is called with
WorkspacePrefixes ==
    {a.workspacePrefix :
        a \in {x \in ListReleasesArguments : "workspacePrefix" \in DOMAIN x}}
CaseVariantsOf == [w \in WorkspacePrefixes |-> CaseVariants(w)]

\* product i of the products fetched has the prefix `w` up to letter case
HasPrefix(i, w) ==
    /\ "reference_prefix" \in DOMAIN locals.allProducts[i]
    /\ EqualIgnoringCase(locals.allProducts[i].reference_prefix, w)

\* list_releases has resolved a workspace / has found none
WorkspaceResolved == tool = "list_releases" /\ "product" \in DOMAIN locals
WorkspaceUnresolved ==
    /\ tool = "list_releases"
    /\ pc = "done"
    /\ outcome.kind = "return"
    /\ "product" \notin DOMAIN locals

\* C15: the workspace list_releases resolves is the first product fetched
\* whose prefix equals workspacePrefix up to letter case, and every
\* workspacePrefix differing from the one given in letter case only resolves
\* that same product over the same products; when none is resolved, no
\* product has such a prefix, so a prefix that contains the one given or is
\* contained in it never resolves.
C15_WorkspaceByCaseInsensitiveExactMatch ==
    /\ WorkspaceResolved =>
          /\ \E i \in 1..Len(locals.allProducts) :
                /\ locals.allProducts[i] = locals.product
                /\ HasPrefix(i, args.workspacePrefix)
                /\ \A j \in 1..(i - 1) : ~HasPrefix(j, args.workspacePrefix)
          /\ \A v \in CaseVariantsOf[args.workspacePrefix] :
                FindProduct(locals.allProducts, v) = locals.product
    /\ WorkspaceUnresolved =>
          /\ \A i \in 1..Len(locals.allProducts) :
                ~HasPrefix(i, args.workspacePrefix)
          /\ \A v \in CaseVariantsOf[args.workspacePrefix] :
                ~Truthy(FindProduct(locals.allProducts, v))

\* "ab" was asked for, and the products fetched were the one with prefix
\* "ABC" and then the one with prefix "AB": the second was resolved
C15_Witness ==
    /\ WorkspaceResolved
    /\ args.workspacePrefix = <<"a", "b">>
    /\ locals.allProducts = <<ProductABC, ProductAB>>
    /\ locals.product = ProductAB
    /\ pc = "await_releases"

\* every reply consumed so far is a parsed page
AllPagesParsed ==
    \A i \in 1..Len(received) :
        /\ received[i].kind = "resolve"
        /\ received[i].value.ok
        /\ "body" \in DOMAIN received[i].value

\* the prefixes of the products `ps` from product i on, separated by ", ";
\* a product without a prefix gives an empty entry
RECURSIVE PrefixList(_, _)
PrefixList(ps, i) ==
    IF i > Len(ps) THEN <<>>
    ELSE (IF "reference_prefix" \in DOMAIN ps[i]
          THEN ps[i].reference_prefix ELSE <<>>)
         \o (IF i < Len(ps) THEN <<", ">> ELSE <<>>)
         \o PrefixList(ps, i + 1)

\* list_releases has ended after parsed pages none of whose products has
\* the prefix asked for
NoProductMatches ==
    /\ tool = "list_releases"
    /\ pc = "done"
    /\ received # <<>>
    /\ AllPagesParsed
    /\ \A i \in 1..Len(ReceivedItems("products", 1)) :
          LET p == ReceivedItems("products", 1)[i]
          IN ~ /\ "reference_prefix" \in DOMAIN p
               /\ EqualIgnoringCase(p.reference_prefix, args.workspacePrefix)

\* C16: when no product fetched has the prefix asked for, list_releases
\* returns the text 'No workspace found with prefix "..."' followed by the
\* prefixes of all products fetched, or by 'none' when that list is empty;
\* it throws nothing and issues no request other than those for products.
C16_UnknownWorkspaceIsSoft ==
    NoProductMatches =>
        LET products == ReceivedItems("products", 1)
            listed == IF PrefixList(products, 1) = <<>>
                      THEN <<"none">> ELSE PrefixList(products, 1)
        IN /\ outcome = Returned(PlainText(
                  <<"No workspace found with prefix \"">> \o args.workspacePrefix
                  \o <<"\". Available workspaces: ">> \o listed))
           /\ products = <<>> => listed = <<"none">>
           /\ \A i \in 1..Len(sent) : IsProductsRequest(sent[i])
           /\ Len(sent) = Len(received)

\* "A" was asked for and the products with prefixes "AB" and "ABC" were
\* fetched: the answer lists both and no releases were requested
C16_Witness ==
    /\ NoProductMatches
    /\ args.workspacePrefix = <<"A">>
    /\ ReceivedItems("products", 1) = <<ProductAB, ProductABC>>
    /\ outcome.kind = "return"
    /\ outcome.content[1].text.plain
          = <<"No workspace found with prefix \"", "A",
              "\". Available workspaces: ", "A", "B", ", ", "A", "B", "C">>
    /\ Len(sent) = 2

\* `search` occurs in `str` at some position, letter case set aside
ContainsIgnoringCase(str, search) ==
    \E start \in 1..(Len(str) - Len(search) + 1) :
        \A k \in 1..Len(search) : SameLetter(str[start + k - 1], search[k])

\* the release has a name in which the `name` argument occurs
NameHasFilter(r) ==
    /\ "name" \in DOMAIN r
    /\ ContainsIgnoringCase(r.name, args.name)

\* list_releases has returned releases under a name filter
FilteredReleasesReturned ==
    /\ tool = "list_releases"
    /\ pc = "done"
    /\ outcome.kind = "return"
    /\ "product" \in DOMAIN locals
    /\ ~FalsyArg(args, "name")

\* the replies to the releases requests: those after the products pages
ReceivedReleases ==
    ReceivedItems("releases", Len(Requests(IsProductsRequest)) + 1)

\* C17: under a name filter the releases list_releases returns are the
\* releases received whose name contains the filter, letter case set aside,
\* in the order received: none that matches is left out, none that does not
\* match (or has no name) is included, and total_count is their number.
C17_NameFilterIsCaseInsensitiveSubstring ==
    FilteredReleasesReturned =>
        LET expected == SelectSeq(ReceivedReleases, NameHasFilter)
        IN /\ ReferenceNums(ResultJson.releases) = ReferenceNums(expected)
           /\ \A i \in 1..Len(expected) :
                 ResultJson.releases[i].name = expected[i].name
           /\ ResultJson.total_count = Len(expected)

\* the filter "q1" over the releases "fyq2" and "FYQ1", received in that
\* order, returned the second alone
C17_Witness ==
    /\ FilteredReleasesReturned
    /\ args.name = <<"q", "1">>
    /\ ReceivedReleases = <<ReleaseQ2, ReleaseQ1>>
    /\ ReferenceNums(ResultJson.releases) = <<ReleaseQ1.reference_num>>

\* C18: get_page issues one request; its variable includeParent is the
\* includeParent argument, false when the argument is absent; `parent` is
\* among the fields asked for exactly when that variable is true, and the
\* page a request with includeParent false is answered with has no parent.
C18_IncludeParentShapesRequest ==
    (tool = "get_page" /\ sent # <<>>) =>
        /\ Len(sent) = 1
        /\ sent[1].query = getPageQuery
        /\ sent[1].variables.id = args.reference
        /\ sent[1].variables.includeParent
              = (IF "includeParent" \in DOMAIN args
                 THEN args.includeParent ELSE FALSE)
        /\ ("parent" \in RequestedFields(sent[1]))
              <=> (sent[1].variables.includeParent = TRUE)
        /\ \A i \in 1..Len(received) :
              (/\ received[i].kind = "resolve"
               /\ received[i].value # Null
               /\ Truthy(Get(received[i].value, "page"))
               /\ ~sent[1].variables.includeParent)
                  => "parent" \notin DOMAIN received[i].value.page

\* get_page was called with a Page reference and no includeParent: the
\* request carried includeParent false, did not ask for `parent`, and the
\* page came back without one
C18_Witness ==
    /\ tool = "get_page"
    /\ pc = "done"
    /\ "includeParent" \notin DOMAIN args
    /\ Len(sent) = 1
    /\ sent[1].variables.includeParent = FALSE
    /\ "parent" \notin RequestedFields(sent[1])
    /\ outcome.kind = "return"
    /\ "json" \in DOMAIN outcome.content[1].text
    /\ "parent" \notin DOMAIN outcome.content[1].text.json

ToolSurface ==
    { "get_record", "get_page", "search_documents", "introspect_feature",
      "get_record_rest", "update_feature", "list_features_in_release",
      "list_releases", "update_release" }

\* C20: a tool call carrying the name of an operation of the tool surface
\* is passed to the handler of that operation, and the MethodNotFound error
\* 'Unknown tool: {name}' is thrown only for a name outside the surface.
C20_EveryToolDispatched ==
    /\ called \in ToolSurface => tool = called
    /\ (ThrewMcpError("MethodNotFound")
           /\ outcome.error.message = <<"Unknown tool: ", called>>)
          => called \notin ToolSurface

\* the message of the error the invocation threw
ThrownMessage == outcome.error.message

\* C21: update_release called with a reference and a fields mapping that is
\* not empty issues one PUT to .../api/v1/releases/{reference} with the body
\* {release: fields}, and an answer that parses is returned as {message:
\* 'Release updated successfully', release}; called without fields or with
\* empty fields it throws 'Fields object is required', called without a
\* reference 'Release reference number is required', and in both cases no
\* request is issued (a call lacking both throws one of the two).
C21_UpdateReleaseContract ==
    tool = "update_release" =>
        /\ (~FalsyArg(args, "reference") /\ "fields" \in DOMAIN args
                /\ Len(args.fields) > 0) =>
              /\ sent = <<RestPut(ApiUrl(<<"releases/">> \o args.reference),
                                  JSONStringify([release |-> args.fields]))>>
              /\ (pc = "done" /\ AllPagesParsed) =>
                    /\ outcome.kind = "return"
                    /\ ResultJson.message = <<"Release updated successfully">>
                    /\ ResultJson.release = received[1].value.body.release
        /\ (FalsyArg(args, "reference")
                \/ "fields" \notin DOMAIN args \/ Len(args.fields) = 0) =>
              /\ sent = <<>>
              /\ pc = "done"
              /\ outcome.kind = "throw"
              /\ ThrownMessage \in {<<"Release reference number is required">>,
                                    <<"Fields object is required">>}
              /\ ~FalsyArg(args, "reference") =>
                    ThrownMessage = <<"Fields object is required">>
              /\ ("fields" \in DOMAIN args /\ Len(args.fields) > 0) =>
                    ThrownMessage = <<"Release reference number is required">>

\* two date fields were sent for A-R-1 and the updated release came back
C21_Witness ==
    /\ tool = "update_release"
    /\ pc = "done"
    /\ outcome.kind = "return"
    /\ Len(args.fields) = 2
    /\ sent[1].method = "PUT"
    /\ sent[1].body.json.release = args.fields
    /\ ResultJson.message = <<"Release updated successfully">>

\* the documented maximum of perPage
MaxPerPage == 200

\* C22: every page request of list_features_in_release carries as per_page
\* the perPage argument, or 100 when the argument is absent, and per_page is
\* never above the documented maximum of 200.
C22_PerPageWithinMaximum ==
    tool = "list_features_in_release" =>
        \A i \in 1..Len(sent) :
            /\ sent[i].url.per_page
                  = (IF "perPage" \in DOMAIN args THEN args.perPage ELSE 100)
            /\ sent[i].url.per_page <= MaxPerPage

\* The total in effect after the p-th response of the loop whose first
\* response is received[first]: the total that response declares (1 for a
\* declared 0 or a pagination object without one), the total in effect
\* before it when it has no pagination object, and 1 before any response.
RECURSIVE TotalInEffect(_, _)
TotalInEffect(first, p) ==
    IF p = 0 THEN 1
    ELSE LET body == received[first + p - 1].value.body
         IN IF "pagination" \notin DOMAIN body
            THEN TotalInEffect(first, p - 1)
            ELSE IF "total_pages" \in DOMAIN body.pagination
                    /\ body.pagination.total_pages # 0
            THEN body.pagination.total_pages
            ELSE 1

\* A loop has issued `fetches` requests and consumed `replies` responses,
\* the first of them received[first]: after each response p it went on to
\* page p + 1 exactly when p was below the total then in effect.
LoopFollowsTotals(first, fetches, replies) ==
    \A p \in 1..replies :
        IF p < TotalInEffect(first, p)
        THEN fetches >= p + 1
        ELSE fetches = p /\ replies = p

\* the responses consumed by the two loops of list_releases
ProductsReplies ==
    IF Len(received) < Len(Requests(IsProductsRequest))
    THEN Len(received) ELSE Len(Requests(IsProductsRequest))
ReleasesReplies == Len(received) - ProductsReplies

\* C23: while every fetch succeeds, a pagination loop goes on to page p + 1
\* after response p exactly when p is below the total in effect after that
\* response, so it issues n fetches, n the least p >= 1 that is not below
\* the total in effect after response p: a total that shrinks ends the loop
\* early and one that grows extends it.
C23_FetchCountFollowsTotalInEffect ==
    (Paginates /\ AllPagesParsed) =>
        /\ tool = "list_features_in_release" =>
              /\ LoopFollowsTotals(1, Len(sent), Len(received))
              /\ (pc = "done" /\ received # <<>>) =>
                    /\ Len(sent) >= TotalInEffect(1, Len(sent))
                    /\ \A p \in 1..(Len(sent) - 1) : p < TotalInEffect(1, p)
                    /\ outcome.kind = "return"
        /\ tool = "list_releases" =>
              /\ LoopFollowsTotals(1, Len(Requests(IsProductsRequest)),
                                   ProductsReplies)
              /\ LoopFollowsTotals(ProductsReplies + 1,
                                   Len(Requests(IsReleasesRequest)),
                                   ReleasesReplies)

\* the first page declared three pages and the second declared two: the
\* loop ended after two fetches
C23_Witness ==
    /\ tool = "list_features_in_release"
    /\ pc = "done"
    /\ outcome.kind = "return"
    /\ Len(sent) = 2
    /\ DeclaredTotal(received[1]) = 3
    /\ DeclaredTotal(received[2]) = 2

\* a page request of one of the three loops is awaited
AwaitingPage == pc \in {"await_features", "await_products", "await_releases"}

\* Each loop asks for the pages 1, 2, ... in steps of one and has issued no
\* more fetches than the largest total a page can declare: MaxTotalPages
\* for the features of a release, two for products and for releases.
FetchesWithinDeclaredBound ==
    /\ tool = "list_features_in_release" =>
          /\ Len(sent) <= MaxTotalPages
          /\ \A i \in 1..Len(sent) : sent[i].url.page = i
    /\ tool = "list_releases" =>
          /\ Len(Requests(IsProductsRequest)) <= 2
          /\ Len(Requests(IsReleasesRequest)) <= 2
          /\ \A i \in 1..Len(sent) :
                sent[i].url.page
                   = (IF IsProductsRequest(sent[i])
                      THEN i ELSE i - Len(Requests(IsProductsRequest)))

\* C24: the page number goes up by one with every fetch and no loop issues
\* more fetches than the bound on the declared totals; when the backend
\* answers every request, an invocation that awaits a page ends.
C24_PaginationTerminates ==
    /\ [](Paginates => FetchesWithinDeclaredBound)
    /\ (AwaitingPage ~> pc = "done")

\* list_features_in_release ended after as many fetches as the largest
\* total a page can declare
C24_Witness ==
    /\ tool = "list_features_in_release"
    /\ pc = "done"
    /\ outcome.kind = "return"
    /\ Len(sent) = MaxTotalPages

\* the page numbers of each loop are 1, 2, 3, ... in the order requested
PagesConsecutive ==
    /\ tool = "list_features_in_release" =>
          \A i \in 1..Len(sent) : sent[i].url.page = i
    /\ tool = "list_releases" =>
          LET products == Requests(IsProductsRequest)
              releases == Requests(IsReleasesRequest)
          IN /\ \A i \in 1..Len(products) : products[i].url.page = i
             /\ \A i \in 1..Len(releases) : releases[i].url.page = i

\* C25: within an invocation at most one request is in flight, and it is
\* the last one issued; every request but the last has been answered by a
\* parsed response before the next was issued, so page p + 1 is asked for
\* only after the response to page p; the pages asked for are 1, 2, 3, ...
\* with none skipped and none asked for twice.
C25_RequestsStrictlySequential ==
    /\ Len(sent) - Len(received) \in {0, 1}
    /\ (Len(sent) = Len(received) + 1) <=> (inflight # None)
    /\ inflight # None => inflight = Last(sent)
    /\ Paginates =>
          /\ \A i \in 1..(Len(sent) - 1) :
                /\ received[i].kind = "resolve"
                /\ received[i].value.ok
                /\ "body" \in DOMAIN received[i].value
          /\ PagesConsecutive

\* the third page of features is awaited after two responses
C25_Witness ==
    /\ tool = "list_features_in_release"
    /\ pc = "await_features"
    /\ Len(received) = 2
    /\ Len(sent) = 3
    /\ inflight.url.page = 3

\* the products of the page responses 1..i, concatenated
RECURSIVE ProductsThrough(_)
ProductsThrough(i) ==
    IF i = 0 THEN <<>> ELSE ProductsThrough(i - 1) \o ItemsOf("products", i)

\* the responses first..(first + n - 1) are parsed pages
PagesParsed(first, n) ==
    /\ Len(received) >= first + n - 1
    /\ \A i \in first..(first + n - 1) :
          /\ received[i].kind = "resolve"
          /\ received[i].value.ok
          /\ "body" \in DOMAIN received[i].value

\* a loop that issued n requests, answered from received[first] on, has
\* run to its end: every response is a parsed page and n is not below the
\* total in effect after the last
PaginationComplete(first, n) ==
    /\ n >= 1
    /\ PagesParsed(first, n)
    /\ n >= TotalInEffect(first, n)

\* C26: in list_releases the products requests all come before the
\* releases requests; the workspace is resolved (or found missing), and a
\* releases request issued, only when the products pagination is complete,
\* the product resolved being the one found among all products received;
\* every releases request targets the id of that product; and the result is
\* the filter and projection of all releases received, produced only when
\* the releases pagination is complete.
C26_ListReleasesPhasesOrdered ==
    tool = "list_releases" =>
        LET np == Len(Requests(IsProductsRequest))
            nr == Len(sent) - np
        IN /\ \A i \in 1..np : IsProductsRequest(sent[i])
           /\ \A i \in (np + 1)..Len(sent) : IsReleasesRequest(sent[i])
           /\ (WorkspaceResolved \/ WorkspaceUnresolved \/ nr > 0) =>
                 PaginationComplete(1, np)
           /\ nr > 0 =>
                 /\ WorkspaceResolved
                 /\ locals.product =
                        FindProduct(ProductsThrough(np), args.workspacePrefix)
                 /\ \A i \in 1..nr :
                       sent[np + i] = ReleasesRequest(locals.product, i)
           /\ WorkspaceResolved => nr > 0
           /\ (pc = "done" /\ outcome.kind = "return" /\ WorkspaceResolved) =>
                 /\ Len(received) = np + nr
                 /\ PaginationComplete(np + 1, nr)
                 /\ outcome = ListReleasesResult(locals.product,
                                                 ReceivedReleases, args)

\* two pages of products, then two pages of releases of the product
\* resolved from the second products page, then the filtered result
C26_Witness ==
    /\ tool = "list_releases"
    /\ pc = "done"
    /\ outcome.kind = "return"
    /\ WorkspaceResolved
    /\ Len(Requests(IsProductsRequest)) = 2
    /\ Len(sent) = 4
    /\ ItemsOf("products", 1) = <<ProductABC>>
    /\ locals.product = ProductAB
    /\ ~FalsyArg(args, "name")
    /\ ResultJson.total_count = 1
    /\ Len(ReceivedReleases) = 2

\* C27: every invocation that has ended has returned a result (a success or
\* a not-found text) or has thrown an McpError, whatever the request,
\* a request without an arguments object included.
C27_EveryInvocationEndsStructured ==
    pc = "done" =>
        \/ outcome.kind = "return"
        \/ outcome.kind = "throw" /\ outcome.error.type = "McpError"

\* the items under `key` of the page responses i.. of the invocation v
RECURSIVE ItemsReceivedBy(_, _, _)
ItemsReceivedBy(v, key, i) ==
    IF i > Len(v.received) THEN <<>>
    ELSE (IF key \in DOMAIN v.received[i].value.body
          THEN v.received[i].value.body[key] ELSE <<>>)
         \o ItemsReceivedBy(v, key, i + 1)

\* the responses the invocation v has consumed for its products requests
ProductsRepliesOf(v) ==
    LET np == Len(SelectSeq(v.sent, IsProductsRequest))
    IN IF Len(v.received) < np THEN Len(v.received) ELSE np

\* the accumulator and page counter of a list_features_in_release
\* invocation hold its own pages, and so does its result
OwnFeatures(v) ==
    (v.tool = "list_features_in_release" /\ v.pc # "idle") =>
        /\ DOMAIN v.locals = {"allFeatures", "currentPage", "totalPages"}
        /\ v.locals.allFeatures = ItemsReceivedBy(v, "features", 1)
        /\ v.locals.currentPage = Len(v.received) + 1
        /\ v.pc = "done" =>
              v.outcome = ListFeaturesResult(ItemsReceivedBy(v, "features", 1))

\* the accumulators and page counters of a list_releases invocation hold
\* its own pages, and so does its result
OwnReleases(v) ==
    (v.tool = "list_releases" /\ v.pc # "idle") =>
        /\ {"allProducts", "productsPage"} \subseteq DOMAIN v.locals
        /\ v.locals.allProducts = ItemsReceivedBy(v, "products", 1)
        /\ v.locals.productsPage = ProductsRepliesOf(v) + 1
        /\ "product" \in DOMAIN v.locals =>
              /\ {"allReleases", "currentPage"} \subseteq DOMAIN v.locals
              /\ v.locals.allReleases = ItemsReceivedBy(v, "releases", 1)
              /\ v.locals.currentPage =
                     Len(v.received) - ProductsRepliesOf(v) + 1
              /\ v.pc = "done" =>
                    v.outcome =
                        ListReleasesResult(
                            FindProduct(ItemsReceivedBy(v, "products", 1),
                                        v.args.workspacePrefix),
                            ItemsReceivedBy(v, "releases", 1), v.args)
        /\ ("product" \notin DOMAIN v.locals /\ v.pc = "done") =>
              v.outcome =
                  WorkspaceNotFound(v.args.workspacePrefix,
                                    ItemsReceivedBy(v, "products", 1))

\* C28: of two invocations interleaved at their await points, each keeps
\* in its accumulators the items of its own page responses and in its page
\* counters the number of its own responses, its result is made of its own
\* items, and two invocations of the same tool with the same arguments and
\* the same responses are in the same state with the same result.
C28_InvocationsIsolated ==
    /\ OwnFeatures(Invocation)
    /\ OwnFeatures(suspended)
    /\ OwnReleases(Invocation)
    /\ OwnReleases(suspended)
    /\ (/\ tool = suspended.tool
        /\ args = suspended.args
        /\ received = suspended.received) => Invocation = suspended

\* a list_features_in_release invocation has ended with the items of its
\* two pages while a list_releases invocation that began before it ended
\* waits for its second page of releases
C28_Witness ==
    /\ tool = "list_features_in_release"
    /\ pc = "done"
    /\ Len(received) = 2
    /\ Len(ResultJson.features) = 2
    /\ suspended.tool = "list_releases"
    /\ suspended.pc = "await_releases"
    /\ Len(suspended.received) = 2
    /\ Len(suspended.locals.allReleases) = 1

\* the product at position k of the products page p
ProductAt(p, k) == ItemsOf("products", p)[k]

\* the product has a prefix equal to workspacePrefix, letter case set aside
MatchesWorkspace(x) ==
    /\ "reference_prefix" \in DOMAIN x
    /\ EqualIgnoringCase(x.reference_prefix, args.workspacePrefix)

\* C29: the product list_releases resolves stands at a position k of a
\* products page p, has a prefix equal to workspacePrefix under
\* case-insensitive comparison, and no product of an earlier page, or at an
\* earlier position of page p, has such a prefix; a product without a
\* prefix is never the one resolved.
C29_FirstMatchInPageOrder ==
    WorkspaceResolved =>
        /\ "reference_prefix" \in DOMAIN locals.product
        /\ \E p \in 1..ProductsReplies :
              \E k \in 1..Len(ItemsOf("products", p)) :
                 /\ ProductAt(p, k) = locals.product
                 /\ MatchesWorkspace(ProductAt(p, k))
                 /\ \A q \in 1..p :
                       \A j \in 1..Len(ItemsOf("products", q)) :
                          (q < p \/ j < k) => ~MatchesWorkspace(ProductAt(q, j))

\* "ab" was asked for; page 1 carried a product without a prefix, page 2
\* the products "Ab" and "AB": the first product of page 2 was resolved
C29_Witness ==
    /\ WorkspaceResolved
    /\ args.workspacePrefix = <<"a", "b">>
    /\ ProductsReplies = 2
    /\ ItemsOf("products", 1) = <<ProductNoPrefix>>
    /\ ItemsOf("products", 2) = <<ProductAb, ProductAB>>
    /\ locals.product = ProductAb

\* list_releases has returned the releases of a resolved workspace
ReleasesReturned ==
    /\ tool = "list_releases"
    /\ pc = "done"
    /\ outcome.kind = "return"
    /\ "product" \in DOMAIN locals

\* the releases received that the name filter keeps
RECURSIVE KeptByFilter(_)
KeptByFilter(i) ==
    IF i = 0 THEN 0
    ELSE KeptByFilter(i - 1)
         + (IF NameHasFilter(ReceivedReleases[i]) THEN 1 ELSE 0)

\* C30: when list_releases succeeds, total_count is the length of the
\* releases array returned: without a name filter the sum of the release
\* counts of the pages received, with one the number of those releases the
\* filter keeps, which is at most that sum.
C30_TotalCountIsReturnedLength ==
    ReleasesReturned =>
        /\ ResultJson.total_count = Len(ResultJson.releases)
        /\ FalsyArg(args, "name") =>
              ResultJson.total_count = Len(ReceivedReleases)
        /\ ~FalsyArg(args, "name") =>
              /\ ResultJson.total_count = KeptByFilter(Len(ReceivedReleases))
              /\ ResultJson.total_count <= Len(ReceivedReleases)

\* under the filter "q1" two releases were received, one of them without a
\* name and the other named "fyq2": none is returned and total_count is 0
C30_Witness ==
    /\ ReleasesReturned
    /\ ~FalsyArg(args, "name")
    /\ args.name = <<"q", "1">>
    /\ Len(ReceivedReleases) = 2
    /\ ResultJson.total_count = 0
    /\ ResultJson.releases = <<>>

====
